---- MODULE Spec2Model ----
(***************************************************************************)
(* Docking-by-rerun orchestrator of my_scripts/dock_minimal.py: input      *)
(* validation, group index parsing, sequential and pooled pose evaluation, *)
(* aggregation of the per-pose results, ranking and the score table.       *)
(***************************************************************************)
EXTENDS Integers, Sequences, FiniteSets, TLC

(* ---------------------------- bounds ---------------------------------- *)
MaxPoses == 3
MaxJobs == 2
MaxScore == 2
MaxNdxLines == 2
NAtoms == 2

VARIABLES
    args,         \* [jobs, n_poses]: the parsed command line
    env,          \* which inputs exist on disk / resolve, and whether the .gro parses
    pc,           \* position of main
    exitStatus,   \* process exit status (-1 while running)
    exitMsg,      \* what terminated the run
    base_struct,  \* the loaded base structure (its atom count), natoms = 0 before loading
    groups,       \* result of parse_ndx_groups
    lig_indices,  \* groups["Ligand"]
    next,         \* loop variable i of the sequential loop / of the submit comprehension
    status,       \* per pose: "new", "queued", "running", "ok", "failed"
    at,           \* per pose: number of run_pose steps completed
    score,        \* per pose: the value run_pose returned (0 = none)
    err,          \* per pose: the exception run_pose raised ("" = none)
    submitted,    \* per pose: how many times run_pose was called / submitted for it
    collected,    \* futures already yielded by as_completed
    results,      \* the results list of main
    log,          \* stderr lines "[WARN] Pose ... failed"
    table,        \* rows written to scores.csv
    tableWrites,  \* how many times scores.csv was written
    written,      \* pose ids whose candidate_XXXX.gro was written
    engineCalls,  \* number of gmx subprocess invocations so far
    files,        \* per pose: the paths under workdir its evaluation has written
    es,           \* a stand-alone call of extract_energy_sum (idle inside a docking run)
    heap,         \* the list objects of apply_rigid_transform calls: list id -> atom records
    rng,          \* per process: the state of the global random generator
    th,           \* per caller of apply_rigid_transform: its arguments, locals and position
    runs,         \* per process: a sequential docking run seen from its candidates
    gro,          \* a stand-alone write_gro / read_gro: the structure, the text, the result
    xv,           \* the parse loop of extract_energy_sum over the lines of its table
    nx,           \* the line loop of parse_ndx_groups over the text of an index file
    guard,        \* a run of check_derivation_guard.main
    docs,         \* a run of align_my_documents.main over my_docs/project_docs
    ft            \* ensure_footer applied to one document, twice in a row

vars == << args, env, pc, exitStatus, exitMsg, base_struct, groups,
           lig_indices, next, status, at, score, err, submitted, collected,
           results, log, table, tableWrites, written, engineCalls, files, es,
           heap, rng, th, runs, gro, xv, nx, guard, docs, ft >>

\* the state of the operations that are also run stand-alone
ptVars == << heap, rng, th >>
toolVars == << nx, guard, docs, ft >>
unitVars == << ptVars, runs, gro, xv, toolVars >>

(* ------------------------- group index file --------------------------- *)
Header(name) == [kind |-> "header", name |-> name, toks |-> <<>>]
IntTok(v) == [isInt |-> TRUE, val |-> v]
NonIntTok == [isInt |-> FALSE, val |-> 0]
TokLine(toks) == [kind |-> "tokens", name |-> "", toks |-> toks]

\* the lines a file is made of: headers, an index inside the structure, an
\* index beyond its last atom, and a token that is no integer
NdxLines ==
    { Header("Ligand"), Header("Protein"),
      TokLine(<<IntTok(1)>>), TokLine(<<IntTok(NAtoms + 1)>>), TokLine(<<NonIntTok>>) }

RECURSIVE SeqsUpTo(_, _)
SeqsUpTo(S, n) ==
    IF n = 0 THEN { <<>> }
    ELSE LET shorter == SeqsUpTo(S, n - 1)
         IN shorter \cup { Append(s, x) : s \in { t \in shorter : Len(t) = n - 1 }, x \in S }

NdxFiles == SeqsUpTo(NdxLines, MaxNdxLines)

\* the integer tokens of one line, in order; non-integer tokens are skipped
RECURSIVE IntsOf(_)
IntsOf(toks) ==
    IF toks = <<>> THEN <<>>
    ELSE IF Head(toks).isInt THEN <<Head(toks).val>> \o IntsOf(Tail(toks))
    ELSE IntsOf(Tail(toks))

NoGroup == ""

\* one iteration of the line loop: st = [groups, current]
NdxStep(st, ln) ==
    IF ln.kind = "header"
    THEN [groups |-> [n \in (DOMAIN st.groups) \cup {ln.name} |->
                        IF n = ln.name THEN <<>> ELSE st.groups[n]],
          current |-> ln.name]
    ELSE IF st.current = NoGroup THEN st
    ELSE [groups |-> [st.groups EXCEPT ![st.current] = @ \o IntsOf(ln.toks)],
          current |-> st.current]

RECURSIVE NdxLoop(_, _)
NdxLoop(st, lines) ==
    IF lines = <<>> THEN st ELSE NdxLoop(NdxStep(st, Head(lines)), Tail(lines))

EmptyGroups == [n \in {} |-> <<>>]

parse_ndx_groups(lines) ==
    NdxLoop([groups |-> EmptyGroups, current |-> NoGroup], lines).groups


(* --------------------------- energy terms ----------------------------- *)
DefaultTerms == << "Coul-SR:Protein-Ligand", "LJ-SR:Protein-Ligand" >>

ListedNames == { "Coul-SR:Protein-Ligand", "LJ-SR:Protein-Ligand", "Potential" }

TermIdx == 1 .. 2

\* the mappings list_energy_terms can return: term name -> 1-based term index
Mappings == UNION { [S -> TermIdx] : S \in SUBSET ListedNames }

\* variant: the error names every required term as soon as one is absent
MissingNamesAll(term_names, mapping) ==
    IF \E k \in 1 .. Len(term_names) : term_names[k] \notin DOMAIN mapping
    THEN term_names ELSE <<>>

\* missing = [t for t in term_names if t not in mapping]
Missing(term_names, mapping) ==
    SelectSeq(term_names, LAMBDA t : t \notin DOMAIN mapping)

\* the RuntimeError raised for a non-empty missing list names that list
TermsError(missing) == [msg |-> "Energy terms not found", terms |-> missing]
ToolError(what) == [msg |-> what, terms |-> <<>>]
NoError == [msg |-> "", terms |-> <<>>]

\* sel = f"{mapping[term_names[0]]} {mapping[term_names[1]]} 0\n"
Selection(term_names, mapping) == << mapping[term_names[1]], mapping[term_names[2]], 0 >>

EsIdle ==
    [pc |-> "idle", term_names |-> <<>>, mapping |-> [n \in {} |-> 0], sel |-> <<>>,
     listCalls |-> 0, extractCalls |-> 0, error |-> NoError, value |-> 0]

(* ------------------------------ ranking -------------------------------- *)
Row(i, s) == [pose |-> i, score |-> s, file |-> << "candidate", i >>]

\* position of a row among rows already in order: after every row whose key
\* is not greater (list.sort is stable)
RECURSIVE InsertByScore(_, _)
InsertByScore(r, sorted) ==
    IF sorted = <<>> THEN << r >>
    ELSE IF r.score < Head(sorted).score THEN << r >> \o sorted
    ELSE << Head(sorted) >> \o InsertByScore(r, Tail(sorted))

\* variant: the results are written in arrival order, the sort is left out
SortOmitted(rows) == rows

RECURSIVE SortByScore(_)
SortByScore(rows) ==
    IF rows = <<>> THEN <<>>
    ELSE InsertByScore(rows[Len(rows)], SortByScore(SubSeq(rows, 1, Len(rows) - 1)))

(* ------------------------------- state --------------------------------- *)
PoseIds == 0 .. (args.n_poses - 1)
Scores == 1 .. MaxScore
Finished(i) == status[i] \in { "ok", "failed" }
Running == { i \in PoseIds : status[i] = "running" }
Queued == { i \in PoseIds : status[i] = "queued" }

(* ---- callers of apply_rigid_transform, their processes and list objects ---- *)
\* a run of the program is a process with its own random module and heap
Procs == 1 .. 2
\* run_pose invocations that may be inside apply_rigid_transform at the same time
Callers == 1 .. 2
\* list objects: struct.atoms of each process, and the list each caller allocates
BaseList(p) == p
OwnList(c) == Cardinality(Procs) + c
ListIds == { BaseList(p) : p \in Procs } \cup { OwnList(c) : c \in Callers }
NoList == 0
NoStruct == [title |-> "", atoms |-> NoList, box |-> << >>]

IdleThread ==
    [proc |-> 1, pc |-> "idle", struct |-> NoStruct, given |-> << >>, lig |-> << >>,
     trans |-> 0, rot |-> 0, lig_idx0 |-> << >>, atoms |-> NoList, c |-> << >>,
     t |-> << >>, theta |-> 0, v |-> << >>, R |-> << >>, k |-> 0, ndraws |-> 0,
     error |-> "", result |-> NoStruct]

\* the value of a variable that belongs to an operation not being run
Unused == << >>

IdleRun ==
    [phase |-> "idle", i |-> 0, n_poses |-> 0, lig |-> << >>, trans |-> 0, rot |-> 0,
     cand |-> << >>, engine |-> << >>]

RunsIdle == runs = Unused

None == << >>

XvIdle == [phase |-> "idle", lines |-> << >>, i |-> 0, last_vals |-> None, value |-> 0,
           error |-> ""]

GroIdle ==
    [phase |-> "idle", struct |-> [title |-> << >>, atoms |-> << >>, box |-> << >>],
     shape |-> [declared |-> << >>, k |-> 0, box |-> ""], lines |-> << >>,
     out |-> [ok |-> FALSE, error |-> "",
              struct |-> [title |-> << >>, atoms |-> << >>, box |-> << >>]]]

PtIdle ==
    /\ heap = Unused
    /\ rng = Unused
    /\ th = Unused

ToolsIdle ==
    /\ nx = Unused
    /\ guard = Unused
    /\ docs = Unused
    /\ ft = Unused

Init ==
    /\ args \in [jobs : 0 .. MaxJobs, n_poses : 0 .. MaxPoses]
    /\ env \in [tpr : BOOLEAN, structure : BOOLEAN, ndx : BOOLEAN,
                gmx : BOOLEAN, groOk : BOOLEAN]
    /\ pc = "start"
    /\ exitStatus = -1
    /\ exitMsg = ""
    /\ base_struct = [natoms |-> 0]
    /\ groups = EmptyGroups
    /\ lig_indices = <<>>
    /\ next = 0
    /\ status = [i \in PoseIds |-> "new"]
    /\ at = [i \in PoseIds |-> 0]
    /\ score = [i \in PoseIds |-> 0]
    /\ err = [i \in PoseIds |-> ""]
    /\ submitted = [i \in PoseIds |-> 0]
    /\ collected = {}
    /\ results = <<>>
    /\ log = <<>>
    /\ table = <<>>
    /\ tableWrites = 0
    /\ written = {}
    /\ engineCalls = 0
    /\ files = [i \in PoseIds |-> {}]
    /\ es = Unused
    /\ PtIdle
    /\ RunsIdle
    /\ gro = Unused
    /\ xv = Unused
    /\ ToolsIdle

runVars == << next, status, at, score, err, submitted, collected, results, log,
              table, tableWrites, written, engineCalls, files, es, unitVars >>
loadVars == << base_struct, groups, lig_indices >>

\* sys.exit(msg) and an uncaught exception both end the process with status 1
Exit(msg) ==
    /\ pc' = "exit"
    /\ exitStatus' = 1
    /\ exitMsg' = msg

(* ------------------------- main: validation ---------------------------- *)
\* variant: the shutil.which test is left out
CheckInputsNoWhich ==
    /\ pc = "start"
    /\ IF ~env.tpr \/ ~env.structure \/ ~env.ndx THEN Exit("Input not found")
       ELSE pc' = "load" /\ UNCHANGED << exitStatus, exitMsg >>
    /\ UNCHANGED << args, env, loadVars, runVars >>

CheckInputs ==
    /\ pc = "start"
    /\ IF ~env.tpr \/ ~env.structure \/ ~env.ndx THEN Exit("Input not found")
       ELSE IF ~env.gmx THEN Exit("Cannot find gmx executable")
       ELSE pc' = "load" /\ UNCHANGED << exitStatus, exitMsg >>
    /\ UNCHANGED << args, env, loadVars, runVars >>

\* variant: the "if not lig_indices" test is left out
LoadInputsNoEmptyTest ==
    /\ pc = "load"
    /\ IF ~env.groOk
       THEN Exit("ValueError") /\ UNCHANGED loadVars
       ELSE \E f \in NdxFiles :
              LET g == parse_ndx_groups(f)
              IN /\ base_struct' = [natoms |-> NAtoms]
                 /\ groups' = g
                 /\ IF "Ligand" \notin DOMAIN g
                    THEN Exit("no group named 'Ligand'") /\ UNCHANGED lig_indices
                    ELSE /\ lig_indices' = g["Ligand"]
                         /\ pc' = IF args.jobs <= 1 THEN "seq" ELSE "submit"
                         /\ UNCHANGED << exitStatus, exitMsg >>
    /\ UNCHANGED << args, env, runVars >>

LoadInputs ==
    /\ pc = "load"
    /\ IF ~env.groOk
       THEN Exit("ValueError") /\ UNCHANGED loadVars
       ELSE \E f \in NdxFiles :
              LET g == parse_ndx_groups(f)
              IN /\ base_struct' = [natoms |-> NAtoms]
                 /\ groups' = g
                 /\ IF "Ligand" \notin DOMAIN g
                    THEN Exit("no group named 'Ligand'") /\ UNCHANGED lig_indices
                    ELSE /\ lig_indices' = g["Ligand"]
                         /\ IF g["Ligand"] = <<>>
                            THEN Exit("'Ligand' group is empty")
                            ELSE /\ pc' = IF args.jobs <= 1 THEN "seq" ELSE "submit"
                                 /\ UNCHANGED << exitStatus, exitMsg >>
    /\ UNCHANGED << args, env, runVars >>

(* --------------------------- run_pose steps ---------------------------- *)
\* atoms[i] for i in lig_idx0 raises IndexError outside the list's index range
IndexOk(indices, natoms) ==
    \A k \in 1 .. Len(indices) : indices[k] - 1 \in (0 - natoms) .. (natoms - 1)

Raise(i, e) ==
    /\ status' = [status EXCEPT ![i] = "failed"]
    /\ err' = [err EXCEPT ![i] = e]
    /\ UNCHANGED << at, score >>

Advance(i) ==
    /\ at' = [at EXCEPT ![i] = @ + 1]
    /\ UNCHANGED << status, err, score >>

(* pose-scoped paths under workdir *)
RECURSIVE Digits(_)
Digits(n) == IF n < 10 THEN << n >> ELSE Digits(n \div 10) \o << n % 10 >>

\* the digits d right-aligned in a field of at least w characters, filled with zeros
ZeroPad(d, w) ==
    IF Len(d) >= w THEN d
    ELSE [k \in 1 .. w |-> IF k <= w - Len(d) THEN 0 ELSE d[k - (w - Len(d))]]

\* f"{i:04d}"
Fmt04(i) == ZeroPad(Digits(i), 4)

\* variant: the candidate file name does not carry the pose id
CandPathShared(i) == << "candidate_", Fmt04(0), ".gro" >>

\* cand_path = pose_dir / f"candidate_{i:04d}.gro"
CandPath(i) == << "candidate_", Fmt04(i), ".gro" >>

\* deffnm = f"pose_{i:04d}": the basename of every file mdrun writes
Deffnm(i) == << "pose_", Fmt04(i), "" >>

\* edr = pose_dir / f"{deffnm}.edr"
EdrPath(i) == << Deffnm(i)[1], Deffnm(i)[2], ".edr" >>

\* out_xvg = edr.with_suffix("").name + "_terms.xvg"
XvgPath(i) == << EdrPath(i)[1], EdrPath(i)[2], "_terms.xvg" >>

Write(path, i) == files' = [files EXCEPT ![i] = @ \cup { path }]

poseFrame == << args, env, pc, exitStatus, exitMsg, loadVars, next, submitted,
                collected, results, log, table, tableWrites, es, unitVars >>

\* variant: the exception of apply_rigid_transform is swallowed inside run_pose,
\* which goes on to the rerun without a candidate
GenerateSwallows(i) ==
    /\ status[i] = "running" /\ at[i] = 0
    /\ IF IndexOk(lig_indices, base_struct.natoms)
       THEN Advance(i) /\ written' = written \cup {i} /\ Write(CandPath(i), i)
       ELSE /\ err' = [err EXCEPT ![i] = "IndexError"]
            /\ at' = [at EXCEPT ![i] = @ + 1]
            /\ UNCHANGED << status, score, written, files >>
    /\ UNCHANGED << poseFrame, engineCalls >>

\* apply_rigid_transform and write_gro: the candidate file of pose i
Generate(i) ==
    /\ status[i] = "running" /\ at[i] = 0
    /\ IF IndexOk(lig_indices, base_struct.natoms)
       THEN Advance(i) /\ written' = written \cup {i} /\ Write(CandPath(i), i)
       ELSE Raise(i, "IndexError") /\ UNCHANGED << written, files >>
    /\ UNCHANGED << poseFrame, engineCalls >>

\* mdrun_rerun: one engine invocation, RuntimeError on a non-zero exit
Rerun(i) ==
    /\ status[i] = "running" /\ at[i] = 1
    /\ engineCalls' = engineCalls + 1
    /\ \E rc \in { 0, 1 } :
         IF rc # 0 THEN Raise(i, "mdrun -rerun failed") ELSE Advance(i)
    /\ Write(Deffnm(i), i)
    /\ UNCHANGED << poseFrame, written >>

\* extract_energy_sum, first half: list_energy_terms and the missing-term test
ListTerms(i) ==
    /\ status[i] = "running" /\ at[i] = 2
    /\ engineCalls' = engineCalls + 1
    /\ \E rc \in { 0, 1 } :
         IF rc # 0 THEN Raise(i, "gmx energy listing failed")
         ELSE \E mapping \in Mappings :
                IF Missing(DefaultTerms, mapping) # <<>>
                THEN Raise(i, TermsError(Missing(DefaultTerms, mapping)).msg)
                ELSE Advance(i)
    /\ UNCHANGED << poseFrame, written, files >>

\* extract_energy_sum, second half: gmx energy -o and the last data row
Extract(i) ==
    /\ status[i] = "running" /\ at[i] = 3
    /\ engineCalls' = engineCalls + 1
    /\ \E rc \in { 0, 1 } :
         IF rc # 0 THEN Raise(i, "gmx energy extract failed")
         ELSE \/ Raise(i, "No data parsed")
              \/ \E v \in Scores :
                   /\ status' = [status EXCEPT ![i] = "ok"]
                   /\ score' = [score EXCEPT ![i] = v]
                   /\ at' = [at EXCEPT ![i] = 4]
                   /\ UNCHANGED err
    /\ Write(XvgPath(i), i)
    /\ UNCHANGED << poseFrame, written >>

(* ----------------------- main: collecting results ---------------------- *)
NoPose == -1

\* variant: the except branch appends a zero-score row for the failed pose
CollectZeroFill(i, tag) ==
    IF status[i] = "ok"
    THEN /\ results' = Append(results, Row(i, score[i]))
         /\ UNCHANGED log
    ELSE /\ log' = Append(log, [pose |-> tag, msg |-> err[i]])
         /\ results' = Append(results, Row(i, 0))

\* results.append(...) or the except branch, for the finished pose i;
\* tag is the pose id the warning names
Collect(i, tag) ==
    IF status[i] = "ok"
    THEN /\ results' = Append(results, Row(i, score[i]))
         /\ UNCHANGED log
    ELSE /\ log' = Append(log, [pose |-> tag, msg |-> err[i]])
         /\ UNCHANGED results

mainFrame == << args, env, exitStatus, exitMsg, loadVars, at, score, err,
                table, tableWrites, written, engineCalls, files, es, unitVars >>

(* --------------------------- jobs <= 1 --------------------------------- *)
\* variant: run_pose is started for any pose not yet started
SeqStartAny ==
    /\ pc = "seq" /\ next < args.n_poses
    /\ \E i \in PoseIds :
         /\ status[i] = "new"
         /\ status' = [status EXCEPT ![i] = "running"]
         /\ submitted' = [submitted EXCEPT ![i] = @ + 1]
    /\ UNCHANGED << pc, next, collected, results, log, mainFrame >>

SeqStart ==
    /\ pc = "seq" /\ next < args.n_poses
    /\ status[next] = "new"
    /\ status' = [status EXCEPT ![next] = "running"]
    /\ submitted' = [submitted EXCEPT ![next] = @ + 1]
    /\ UNCHANGED << pc, next, collected, results, log, mainFrame >>

\* variant: no try/except around run_pose, the exception ends main
SeqCollectUncaught ==
    /\ pc = "seq" /\ next < args.n_poses
    /\ Finished(next)
    /\ IF status[next] = "ok"
       THEN /\ results' = Append(results, Row(next, score[next]))
            /\ next' = next + 1
            /\ UNCHANGED << pc, exitStatus, exitMsg >>
       ELSE Exit(err[next]) /\ UNCHANGED << results, next >>
    /\ UNCHANGED << args, env, loadVars, status, at, score, err, submitted, collected,
                    log, table, tableWrites, written, engineCalls, files, es,
                    unitVars >>

SeqCollect ==
    /\ pc = "seq" /\ next < args.n_poses
    /\ Finished(next)
    /\ Collect(next, next)
    /\ next' = next + 1
    /\ UNCHANGED << pc, status, submitted, collected, mainFrame >>

SeqDone ==
    /\ pc = "seq" /\ next = args.n_poses
    /\ pc' = "sort"
    /\ UNCHANGED << next, status, submitted, collected, results, log, mainFrame >>

(* ---------------------------- jobs > 1 --------------------------------- *)
Submit ==
    /\ pc = "submit" /\ next < args.n_poses
    /\ status' = [status EXCEPT ![next] = "queued"]
    /\ submitted' = [submitted EXCEPT ![next] = @ + 1]
    /\ next' = next + 1
    /\ UNCHANGED << pc, collected, results, log, mainFrame >>

SubmitDone ==
    /\ pc = "submit" /\ next = args.n_poses
    /\ pc' = "collect"
    /\ UNCHANGED << next, status, submitted, collected, results, log, mainFrame >>

\* variant: every submitted work item gets a thread of its own
WorkerStartUnbounded(i) ==
    /\ status[i] = "queued"
    /\ \A j \in Queued : i <= j
    /\ status' = [status EXCEPT ![i] = "running"]
    /\ UNCHANGED << pc, next, submitted, collected, results, log, mainFrame >>

\* a pool thread takes the oldest queued work item; there are max_workers threads
WorkerStart(i) ==
    /\ status[i] = "queued"
    /\ \A j \in Queued : i <= j
    /\ Cardinality(Running) < args.jobs
    /\ status' = [status EXCEPT ![i] = "running"]
    /\ UNCHANGED << pc, next, submitted, collected, results, log, mainFrame >>

\* one iteration of "for fut in as_completed(futs)"
PoolCollect(i) ==
    /\ pc = "collect"
    /\ Finished(i) /\ i \notin collected
    /\ Collect(i, NoPose)
    /\ collected' = collected \cup {i}
    /\ UNCHANGED << pc, next, status, submitted, mainFrame >>

\* variant: the loop over as_completed is left after the first completed future
\* and the executor does not wait for the rest
PoolDoneEarly ==
    /\ pc = "collect" /\ (collected # {} \/ PoseIds = {})
    /\ pc' = "sort"
    /\ UNCHANGED << next, status, submitted, collected, results, log, mainFrame >>

\* as_completed is exhausted and the with block is left
PoolDone ==
    /\ pc = "collect" /\ collected = PoseIds
    /\ pc' = "sort"
    /\ UNCHANGED << next, status, submitted, collected, results, log, mainFrame >>

(* ------------------------- main: sort and save ------------------------- *)
SortAndSave ==
    /\ pc = "sort"
    /\ results' = SortByScore(results)
    /\ table' = results'
    /\ tableWrites' = tableWrites + 1
    /\ pc' = "done"
    /\ exitStatus' = 0
    /\ UNCHANGED << args, env, exitMsg, loadVars, next, status, at, score, err,
                    submitted, collected, log, written, engineCalls, files, es,
                    unitVars >>

Next ==
    \/ CheckInputs
    \/ LoadInputs
    \/ SeqStart
    \/ SeqCollect
    \/ SeqDone
    \/ Submit
    \/ SubmitDone
    \/ \E i \in PoseIds : WorkerStart(i)
    \/ \E i \in PoseIds : Generate(i)
    \/ \E i \in PoseIds : Rerun(i)
    \/ \E i \in PoseIds : ListTerms(i)
    \/ \E i \in PoseIds : Extract(i)
    \/ \E i \in PoseIds : PoolCollect(i)
    \/ PoolDone
    \/ SortAndSave

Spec == Init /\ [][Next]_vars

(* ------------- extract_energy_sum as a stand-alone operation ------------ *)
mainVars == << args, env, pc, exitStatus, exitMsg, loadVars, next, status, at, score,
               err, submitted, collected, results, log, table, tableWrites, written,
               engineCalls, files >>

TermPairs == { << a, b >> : a \in ListedNames, b \in ListedNames }

\* main before it has started, with nothing to do: the state of every stand-alone run
MainIdle ==
    /\ args = [jobs |-> 1, n_poses |-> 0]
    /\ env = [tpr |-> TRUE, structure |-> TRUE, ndx |-> TRUE, gmx |-> TRUE, groOk |-> TRUE]
    /\ pc = "start"
    /\ exitStatus = -1
    /\ exitMsg = ""
    /\ base_struct = [natoms |-> 0]
    /\ groups = EmptyGroups
    /\ lig_indices = <<>>
    /\ next = 0
    /\ status = [i \in PoseIds |-> "new"]
    /\ at = [i \in PoseIds |-> 0]
    /\ score = [i \in PoseIds |-> 0]
    /\ err = [i \in PoseIds |-> ""]
    /\ submitted = [i \in PoseIds |-> 0]
    /\ collected = {}
    /\ results = <<>>
    /\ log = <<>>
    /\ table = <<>>
    /\ tableWrites = 0
    /\ written = {}
    /\ engineCalls = 0
    /\ files = [i \in PoseIds |-> {}]

InitScore ==
    /\ MainIdle
    /\ \E tn \in TermPairs : es = [EsIdle EXCEPT !.pc = "list", !.term_names = tn]
    /\ PtIdle
    /\ RunsIdle
    /\ gro = Unused
    /\ xv = Unused
    /\ ToolsIdle

\* mapping = list_energy_terms(gmx, edr, cwd)
EsList ==
    /\ es.pc = "list"
    /\ \E rc \in { 0, 1 } :
         IF rc # 0
         THEN es' = [es EXCEPT !.pc = "raised", !.listCalls = @ + 1,
                               !.error = ToolError("gmx energy listing failed")]
         ELSE \E m \in Mappings :
                es' = [es EXCEPT !.pc = "check", !.listCalls = @ + 1, !.mapping = m]
    /\ UNCHANGED << mainVars, unitVars >>

\* missing = [...]; if missing: raise RuntimeError(...); sel = ...
EsCheck ==
    /\ es.pc = "check"
    /\ IF Missing(es.term_names, es.mapping) # <<>>
       THEN es' = [es EXCEPT !.pc = "raised",
                             !.error = TermsError(Missing(es.term_names, es.mapping))]
       ELSE es' = [es EXCEPT !.pc = "extract",
                             !.sel = Selection(es.term_names, es.mapping)]
    /\ UNCHANGED << mainVars, unitVars >>

\* gmx energy -o ..._terms.xvg, then the last parsed data row
EsExtract ==
    /\ es.pc = "extract"
    /\ \E rc \in { 0, 1 } :
         IF rc # 0
         THEN es' = [es EXCEPT !.pc = "raised", !.extractCalls = @ + 1,
                               !.error = ToolError("gmx energy extract failed")]
         ELSE \/ es' = [es EXCEPT !.pc = "raised", !.extractCalls = @ + 1,
                                  !.error = ToolError("No data parsed")]
              \/ \E v \in Scores :
                   es' = [es EXCEPT !.pc = "returned", !.extractCalls = @ + 1, !.value = v]
    /\ UNCHANGED << mainVars, unitVars >>

NextScore ==
    \/ EsList
    \/ EsCheck
    \/ EsExtract

SpecScore == InitScore /\ [][NextScore]_vars

(* ------------------- apply_rigid_transform, line by line ------------------ *)
MaxLig == 2

Abs(n) == IF n < 0 THEN -n ELSE n

RECURSIVE GCD(_, _)
GCD(a, b) == IF b = 0 THEN a ELSE GCD(b, a % b)

\* a float, held exactly: numerator over a positive denominator, in lowest terms
Q(n, d) == LET g == GCD(Abs(n), d) IN << n \div g, d \div g >>
QInt(n) == << n, 1 >>
QAdd(p, q) == Q(p[1] * q[2] + q[1] * p[2], p[2] * q[2])
QSub(p, q) == Q(p[1] * q[2] - q[1] * p[2], p[2] * q[2])
QMul(p, q) == Q(p[1] * q[1], p[2] * q[2])
QDivInt(p, k) == Q(p[1], p[2] * k)

RECURSIVE QSum(_)
QSum(s) == IF s = << >> THEN QInt(0) ELSE QAdd(Head(s), QSum(Tail(s)))

\* the stream of the random module: the state is a position on a fixed cycle of
\* draws from [-1, 1]; random.seed(n) and start-up entropy choose the position
Tape == << -1, 1, 0, 0, 0, 1, -1, 1 >>
RngStates == 1 .. Len(Tape)
NextRng(x) == (x % Len(Tape)) + 1
\* random.uniform(-a, a) in state x
Uniform(x, a) == a * Tape[x]

\* seq[i] of Python: negative i counts from the end
PyValid(seq, i) == -Len(seq) <= i /\ i < Len(seq)
PyPos(seq, i) == IF i >= 0 THEN i + 1 ELSE Len(seq) + i + 1

AtomRecord(resid, resname, atomname, atomnr, x, y, z) ==
    [resid |-> resid, resname |-> resname, atomname |-> atomname, atomnr |-> atomnr,
     x |-> x, y |-> y, z |-> z]

\* the base structures: NAtoms records of one residue, spread along a line
BaseAtoms ==
    { [k \in 1 .. NAtoms |->
          AtomRecord(1, "LIG", "C", k, QInt(m * k), QInt(k * k), QInt(0))] : m \in {1, 2} }

\* ligand_atom_indices_1based as main passes it: a non-empty list of integers the
\* group index file may hold, in range or not, repeated or not
LigIndex == 0 .. (NAtoms + 1)
LigLists == SeqsUpTo(LigIndex, MaxLig) \ { << >> }
TransArgs == {1}
RotArgs == {0, 180}

Identity == << << QInt(1), QInt(0), QInt(0) >>,
               << QInt(0), QInt(1), QInt(0) >>,
               << QInt(0), QInt(0), QInt(1) >> >>

\* math.cos of a multiple of 180 degrees
Cos(deg) == IF deg % 360 = 0 THEN 1 ELSE -1

\* the matrix of random_rotation_matrix for angle theta (degrees) about the drawn
\* vector v, n2 = |v|^2; theta is a multiple of 180 degrees, so s = sin(theta) = 0
\* and the terms in s vanish; x * y of the unit axis is v[i] * v[j] / n2
Rodrigues(theta, v) ==
    LET n2 == v[1] * v[1] + v[2] * v[2] + v[3] * v[3]
        c == Cos(theta)
        C == 1 - c
    IN  [i \in 1 .. 3 |->
          [j \in 1 .. 3 |->
              QAdd(QMul(Q(v[i] * v[j], n2), QInt(C)), QInt(IF i = j THEN c ELSE 0))]]

\* one pass of the loop body: the record that replaces atom a
TransformAtom(a, c, t, R) ==
    LET r == << QSub(a.x, c[1]), QSub(a.y, c[2]), QSub(a.z, c[3]) >>
        n == [i \in 1 .. 3 |->
                QAdd(QAdd(QAdd(QAdd(QMul(R[i][1], r[1]), QMul(R[i][2], r[2])),
                               QMul(R[i][3], r[3])), c[i]), QInt(t[i]))]
    IN  AtomRecord(a.resid, a.resname, a.atomname, a.atomnr, n[1], n[2], n[3])

\* sum(xs) / len(xs) over the listed atoms of list a
Mean(a, idx, f) ==
    QDivInt(QSum([k \in 1 .. Len(idx) |-> a[PyPos(a, idx[k])][f]]), Len(idx))

Centroid(a, idx) == << Mean(a, idx, "x"), Mean(a, idx, "y"), Mean(a, idx, "z") >>

\* a caller entering apply_rigid_transform(struct, lig, trans, rot) in process p;
\* given keeps what struct held at the call
Call(p, struct, lig, trans, rot) ==
    [IdleThread EXCEPT !.proc = p, !.pc = "copy", !.struct = struct,
                       !.given = [title |-> struct.title, atoms |-> heap[struct.atoms],
                                  box |-> struct.box],
                       !.lig = lig, !.trans = trans, !.rot = rot]

ptRest == << mainVars, es, runs, gro, xv, toolVars >>

\* variant: atoms is struct.atoms itself, not a copy of it
CopyAtomsAliased(c) ==
    /\ th[c].pc = "copy"
    /\ th' = [th EXCEPT ![c].lig_idx0 = [k \in 1 .. Len(th[c].lig) |-> th[c].lig[k] - 1],
                        ![c].atoms = th[c].struct.atoms,
                        ![c].pc = "centroid"]
    /\ UNCHANGED << heap, rng, ptRest >>

\* lig_idx0 = [i - 1 ...]; atoms = list(struct.atoms)
CopyAtoms(c) ==
    /\ th[c].pc = "copy"
    /\ th' = [th EXCEPT ![c].lig_idx0 = [k \in 1 .. Len(th[c].lig) |-> th[c].lig[k] - 1],
                        ![c].atoms = OwnList(c),
                        ![c].pc = "centroid"]
    /\ heap' = [heap EXCEPT ![OwnList(c)] = heap[th[c].struct.atoms]]
    /\ UNCHANGED << rng, ptRest >>

\* xs, ys, zs = [atoms[i].x for i in lig_idx0] ...; cx, cy, cz = sum / len
LigandCentroid(c) ==
    /\ th[c].pc = "centroid"
    /\ LET a == heap[th[c].atoms]
           idx == th[c].lig_idx0
       IN  th' = IF \E k \in 1 .. Len(idx) : ~PyValid(a, idx[k])
                 THEN [th EXCEPT ![c].pc = "failed", ![c].error = "IndexError"]
                 ELSE IF idx = << >>
                 THEN [th EXCEPT ![c].pc = "failed", ![c].error = "ZeroDivisionError"]
                 ELSE [th EXCEPT ![c].c = Centroid(a, idx), ![c].pc = "tx"]
    /\ UNCHANGED << heap, rng, ptRest >>

\* tx, ty, tz = random.uniform(-trans_nm, trans_nm), one draw each
DrawTranslation(c) ==
    /\ th[c].pc \in {"tx", "ty", "tz"}
    /\ LET p == th[c].proc
       IN  /\ th' = [th EXCEPT ![c].t = Append(@, Uniform(rng[p], th[c].trans)),
                               ![c].ndraws = @ + 1,
                               ![c].pc = CASE @ = "tx" -> "ty"
                                           [] @ = "ty" -> "tz"
                                           [] OTHER -> "rot"]
           /\ rng' = [rng EXCEPT ![p] = NextRng(@)]
    /\ UNCHANGED << heap, ptRest >>

\* random_rotation_matrix: if max_deg <= 0 return the identity
RotationEntry(c) ==
    /\ th[c].pc = "rot"
    /\ th' = IF th[c].rot <= 0
             THEN [th EXCEPT ![c].R = Identity, ![c].k = 1, ![c].pc = "loop"]
             ELSE [th EXCEPT ![c].pc = "theta"]
    /\ UNCHANGED << heap, rng, ptRest >>

\* theta = math.radians(random.uniform(-max_deg, max_deg))
DrawTheta(c) ==
    /\ th[c].pc = "theta"
    /\ LET p == th[c].proc
       IN  /\ th' = [th EXCEPT ![c].theta = Uniform(rng[p], th[c].rot),
                               ![c].ndraws = @ + 1,
                               ![c].pc = "axis"]
           /\ rng' = [rng EXCEPT ![p] = NextRng(@)]
    /\ UNCHANGED << heap, ptRest >>

\* x, y, z = random.uniform(-1, 1), random.uniform(-1, 1), random.uniform(-1, 1)
DrawAxis(c) ==
    /\ th[c].pc = "axis"
    /\ LET p == th[c].proc
           x1 == rng[p]
           x2 == NextRng(x1)
           x3 == NextRng(x2)
       IN  /\ th' = [th EXCEPT ![c].v = << Uniform(x1, 1), Uniform(x2, 1), Uniform(x3, 1) >>,
                               ![c].ndraws = @ + 3,
                               ![c].pc = "norm"]
           /\ rng' = [rng EXCEPT ![p] = NextRng(x3)]
    /\ UNCHANGED << heap, ptRest >>

\* n = sqrt(x*x + y*y + z*z); if n > 1e-6: normalise, build the matrix and return it
\* (theta, x, y, z go out of scope), else draw again
Normalise(c) ==
    /\ th[c].pc = "norm"
    /\ LET v == th[c].v
       IN  th' = IF v[1] * v[1] + v[2] * v[2] + v[3] * v[3] > 0
                 THEN [th EXCEPT ![c].R = Rodrigues(th[c].theta, v), ![c].k = 1,
                                 ![c].theta = 0, ![c].v = << >>, ![c].pc = "loop"]
                 ELSE [th EXCEPT ![c].pc = "axis"]
    /\ UNCHANGED << heap, rng, ptRest >>

\* for i in lig_idx0: a = atoms[i]; ...; atoms[i] = AtomRecord(...)
TransformNext(c) ==
    /\ th[c].pc = "loop"
    /\ th[c].k <= Len(th[c].lig_idx0)
    /\ LET l == th[c].atoms
           pos == PyPos(heap[l], th[c].lig_idx0[th[c].k])
       IN  heap' = [heap EXCEPT ![l][pos] = TransformAtom(@, th[c].c, th[c].t, th[c].R)]
    /\ th' = [th EXCEPT ![c].k = @ + 1]
    /\ UNCHANGED << rng, ptRest >>

\* return GroStructure(struct.title, atoms, struct.box)
ReturnStruct(c) ==
    /\ th[c].pc = "loop"
    /\ th[c].k > Len(th[c].lig_idx0)
    /\ th' = [th EXCEPT ![c].result = [title |-> th[c].struct.title, atoms |-> th[c].atoms,
                                       box |-> th[c].struct.box],
                        ![c].pc = "done"]
    /\ UNCHANGED << heap, rng, ptRest >>

PerturbStep(c) ==
    \/ CopyAtoms(c)
    \/ LigandCentroid(c)
    \/ DrawTranslation(c)
    \/ RotationEntry(c)
    \/ DrawTheta(c)
    \/ DrawAxis(c)
    \/ Normalise(c)
    \/ TransformNext(c)
    \/ ReturnStruct(c)

\* the callers cs of process 1 entering apply_rigid_transform with main's arguments
InitCalls(cs, ligs, seeds) ==
    /\ MainIdle
    /\ es = Unused
    /\ RunsIdle
    /\ gro = Unused
    /\ xv = Unused
    /\ ToolsIdle
    /\ \E x \in seeds : rng = [p \in Procs |-> IF p = 1 THEN x ELSE 1]
    /\ \E b \in BaseAtoms :
         heap = [l \in ListIds |-> IF l = BaseList(1) THEN b ELSE << >>]
    /\ \E lig \in ligs, trans \in TransArgs, rot \in RotArgs :
         th = [c \in Callers |->
                 IF c \in cs
                 THEN Call(1, [title |-> "complex", atoms |-> BaseList(1),
                               box |-> << 3, 3, 3 >>], lig, trans, rot)
                 ELSE IdleThread]

\* one call at a time (the sequential loop)
InitPerturb == InitCalls({1}, LigLists, RngStates)

NextPerturb == \E c \in Callers : PerturbStep(c)

SpecPerturb == InitPerturb /\ [][NextPerturb]_vars

\* two pool workers inside the call at once
InitPool == InitCalls(Callers, LigLists, {1})

SpecPool == InitPool /\ [][NextPerturb]_vars

(* ------------- two sequential runs with the same seed and inputs ---------- *)
Structure(p) == [title |-> "complex", atoms |-> BaseList(p), box |-> << 3, 3, 3 >>]

\* the candidate run_pose writes: write_gro is a function of the structure alone
NoCandidate == << >>

seedRest == << mainVars, es, gro, xv, toolVars >>

\* for i in range(args.n_poses): run_pose(i, ...) enters apply_rigid_transform
RunPose(p) ==
    /\ runs[p].phase = "next"
    /\ runs[p].i < runs[p].n_poses
    /\ p = 1 \/ runs[1].phase = "end"
    /\ th' = [th EXCEPT ![p] = Call(p, Structure(p), runs[p].lig, runs[p].trans, runs[p].rot)]
    /\ runs' = [runs EXCEPT ![p].phase = "generate"]
    /\ UNCHANGED << heap, rng, seedRest >>

\* write_gro(cand_struct, cand_path), or the IndexError of the transform caught by main
WriteCandidate(p) ==
    /\ runs[p].phase = "generate"
    /\ \/ /\ th[p].pc = "done"
          /\ runs' = [runs EXCEPT ![p].cand = Append(@, heap[th[p].result.atoms]),
                                  ![p].phase = "engine"]
       \/ /\ th[p].pc = "failed"
          /\ runs' = [runs EXCEPT ![p].cand = Append(@, NoCandidate),
                                  ![p].engine = Append(@, "not run"),
                                  ![p].i = @ + 1,
                                  ![p].phase = "next"]
    /\ UNCHANGED << heap, rng, th, seedRest >>

\* variant: a failed engine call takes one draw from the generator before the next pose
EngineRetryDraws(p) ==
    /\ runs[p].phase = "engine"
    /\ \E outcome \in {"ok", "failed"} :
         /\ runs' = [runs EXCEPT ![p].engine = Append(@, outcome),
                                 ![p].i = @ + 1,
                                 ![p].phase = "next"]
         /\ rng' = IF outcome = "failed" THEN [rng EXCEPT ![p] = NextRng(@)] ELSE rng
    /\ UNCHANGED << heap, th, seedRest >>

\* mdrun_rerun and extract_energy_sum: they succeed or raise, and draw nothing
Engine(p) ==
    /\ runs[p].phase = "engine"
    /\ \E outcome \in {"ok", "failed"} :
         runs' = [runs EXCEPT ![p].engine = Append(@, outcome),
                              ![p].i = @ + 1,
                              ![p].phase = "next"]
    /\ UNCHANGED << heap, rng, th, seedRest >>

\* the loop is exhausted
RunEnd(p) ==
    /\ runs[p].phase = "next"
    /\ runs[p].i = runs[p].n_poses
    /\ runs' = [runs EXCEPT ![p].phase = "end"]
    /\ UNCHANGED << heap, rng, th, seedRest >>

\* two processes started with --jobs 1, the same --seed and the same input files
InitSeed ==
    /\ MainIdle
    /\ es = Unused
    /\ gro = Unused
    /\ xv = Unused
    /\ ToolsIdle
    /\ \E x \in RngStates : rng = [p \in Procs |-> x]
    /\ \E b \in BaseAtoms :
         heap = [l \in ListIds |-> IF l \in { BaseList(p) : p \in Procs } THEN b ELSE << >>]
    /\ th = [c \in Callers |-> IdleThread]
    /\ \E lig \in SeqsUpTo(LigIndex, 1) \ { << >> }, trans \in TransArgs, rot \in RotArgs :
         runs = [p \in Procs |->
                   [IdleRun EXCEPT !.phase = "next", !.n_poses = MaxPoses, !.lig = lig,
                                   !.trans = trans, !.rot = rot]]

NextSeed ==
    \E p \in Procs :
        \/ RunPose(p)
        \/ PerturbStep(p)
        \/ WriteCandidate(p)
        \/ Engine(p)
        \/ RunEnd(p)

SpecSeed == InitSeed /\ [][NextSeed]_vars

(* ------------- the docking run with the draws of each pose spelt out ------- *)
MaxLivePoses == 2

\* three calls of random.uniform(-a, a) in a row from state x, and the state after
Advance3(x) == NextRng(NextRng(NextRng(x)))
Draw3(x, a) == << Uniform(x, a), Uniform(NextRng(x), a), Uniform(NextRng(NextRng(x)), a) >>

\* the generator state a run starts from: the first pose that reaches the axis
\* loop draws the zero vector on its first pass, the poses after it do not
LiveSeeds == { Len(Tape) - 1 }

liveFrame == << args, env, pc, exitStatus, exitMsg, loadVars, next, submitted,
                collected, results, log, table, tableWrites, es, heap, runs, gro, xv,
                toolVars >>

\* apply_rigid_transform up to the axis loop: the centroid (IndexError for an
\* index outside the list), tx, ty, tz, and theta when max_deg > 0
LiveCentroidAndDraws(i) ==
    /\ status[i] = "running" /\ at[i] = 0 /\ th[i].pc = "idle"
    /\ IF IndexOk(lig_indices, base_struct.natoms)
       THEN /\ th' = [th EXCEPT ![i].pc = IF th[i].rot <= 0 THEN "loop" ELSE "axis",
                                   ![i].ndraws = IF th[i].rot <= 0 THEN 3 ELSE 3 + 1]
            /\ rng' = [rng EXCEPT ![1] = IF th[i].rot <= 0 THEN Advance3(@)
                                         ELSE NextRng(Advance3(@))]
            /\ UNCHANGED << status, at, err, score >>
       ELSE Raise(i, "IndexError") /\ UNCHANGED << th, rng >>
    /\ UNCHANGED << liveFrame, written, files, engineCalls >>

\* variant: a rejected vector is tested again without new draws
LiveAxisSameDraw(i) ==
    /\ status[i] = "running" /\ at[i] = 0 /\ th[i].pc = "axis"
    /\ LET v == Draw3(rng[1], 1)
       IN  IF v[1] * v[1] + v[2] * v[2] + v[3] * v[3] > 0
           THEN /\ th' = [th EXCEPT ![i].pc = "loop", ![i].ndraws = @ + 3]
                /\ rng' = [rng EXCEPT ![1] = Advance3(@)]
           ELSE UNCHANGED << th, rng >>
    /\ UNCHANGED << liveFrame, status, at, err, score, written, files, engineCalls >>

\* one pass of "while True": x, y, z are drawn; the loop is left when n > 1e-6
LiveAxis(i) ==
    /\ status[i] = "running" /\ at[i] = 0 /\ th[i].pc = "axis"
    /\ LET v == Draw3(rng[1], 1)
       IN  th' = [th EXCEPT ![i].ndraws = @ + 3,
                            ![i].pc = IF v[1] * v[1] + v[2] * v[2] + v[3] * v[3] > 0
                                      THEN "loop" ELSE "axis"]
    /\ rng' = [rng EXCEPT ![1] = Advance3(@)]
    /\ UNCHANGED << liveFrame, status, at, err, score, written, files, engineCalls >>

\* the transform loop, return, and write_gro(cand_struct, cand_path)
LiveTransformAndWrite(i) ==
    /\ status[i] = "running" /\ at[i] = 0 /\ th[i].pc = "loop"
    /\ th' = [th EXCEPT ![i].pc = "done"]
    /\ Advance(i)
    /\ written' = written \cup { i }
    /\ Write(CandPath(i), i)
    /\ UNCHANGED << liveFrame, rng, engineCalls >>

InitLive ==
    /\ args \in [jobs : 0 .. MaxJobs, n_poses : 0 .. MaxLivePoses]
    /\ env \in [tpr : BOOLEAN, structure : BOOLEAN, ndx : BOOLEAN,
                gmx : BOOLEAN, groOk : BOOLEAN]
    /\ pc = "start"
    /\ exitStatus = -1
    /\ exitMsg = ""
    /\ base_struct = [natoms |-> 0]
    /\ groups = EmptyGroups
    /\ lig_indices = <<>>
    /\ next = 0
    /\ status = [i \in PoseIds |-> "new"]
    /\ at = [i \in PoseIds |-> 0]
    /\ score = [i \in PoseIds |-> 0]
    /\ err = [i \in PoseIds |-> ""]
    /\ submitted = [i \in PoseIds |-> 0]
    /\ collected = {}
    /\ results = <<>>
    /\ log = <<>>
    /\ table = <<>>
    /\ tableWrites = 0
    /\ written = {}
    /\ engineCalls = 0
    /\ files = [i \in PoseIds |-> {}]
    /\ es = Unused
    /\ heap = Unused
    /\ RunsIdle
    /\ gro = Unused
    /\ xv = Unused
    /\ ToolsIdle
    /\ \E x \in LiveSeeds : rng = [p \in Procs |-> IF p = 1 THEN x ELSE 1]
    /\ \E rot \in RotArgs : th = [i \in PoseIds |-> [IdleThread EXCEPT !.rot = rot]]

NextLive ==
    \/ CheckInputs
    \/ LoadInputs
    \/ SeqStart
    \/ SeqCollect
    \/ SeqDone
    \/ Submit
    \/ SubmitDone
    \/ \E i \in PoseIds : WorkerStart(i)
    \/ \E i \in PoseIds : LiveCentroidAndDraws(i)
    \/ \E i \in PoseIds : LiveAxis(i)
    \/ \E i \in PoseIds : LiveTransformAndWrite(i)
    \/ \E i \in PoseIds : Rerun(i)
    \/ \E i \in PoseIds : ListTerms(i)
    \/ \E i \in PoseIds : Extract(i)
    \/ \E i \in PoseIds : PoolCollect(i)
    \/ PoolDone
    \/ SortAndSave

\* every engine invocation returns and a thread that can step is scheduled
SpecLive == InitLive /\ [][NextLive]_vars /\ WF_vars(NextLive)

(* --------------------- .gro text, character by character ------------------ *)
\* text is a sequence of one-character strings; a float is held in units of 1e-5
DigitChars == << "0", "1", "2", "3", "4", "5", "6", "7", "8", "9" >>
IsDigit(ch) == \E d \in 1 .. Len(DigitChars) : DigitChars[d] = ch
DigitVal(ch) == (CHOOSE d \in 1 .. Len(DigitChars) : DigitChars[d] = ch) - 1
AllDigits(s) == \A k \in 1 .. Len(s) : IsDigit(s[k])
Chars(ds) == [k \in 1 .. Len(ds) |-> DigitChars[ds[k] + 1]]

RECURSIVE Pow10(_)
Pow10(k) == IF k = 0 THEN 1 ELSE 10 * Pow10(k - 1)

\* the decimals a float is held with
FloatDecimals == 5

RECURSIVE LStrip(_)
LStrip(s) == IF s # << >> /\ Head(s) = " " THEN LStrip(Tail(s)) ELSE s

RECURSIVE RStrip(_)
RStrip(s) == IF s # << >> /\ s[Len(s)] = " " THEN RStrip(SubSeq(s, 1, Len(s) - 1)) ELSE s

\* s.strip()
Strip(s) == RStrip(LStrip(s))

\* s[a:b] of Python, 0 <= a
Slice(s, a, b) == SubSeq(s, a + 1, IF b < Len(s) THEN b ELSE Len(s))

RECURSIVE SplitFrom(_, _, _)
SplitFrom(s, cur, acc) ==
    IF s = << >> THEN (IF cur = << >> THEN acc ELSE Append(acc, cur))
    ELSE IF Head(s) = " "
         THEN SplitFrom(Tail(s), << >>, IF cur = << >> THEN acc ELSE Append(acc, cur))
         ELSE SplitFrom(Tail(s), Append(cur, Head(s)), acc)

\* s.split()
Split(s) == SplitFrom(s, << >>, << >>)

RECURSIVE DigitsValue(_, _)
DigitsValue(s, acc) ==
    IF s = << >> THEN acc ELSE DigitsValue(Tail(s), 10 * acc + DigitVal(Head(s)))

Unsigned(s) == IF s # << >> /\ Head(s) \in {"-", "+"} THEN Tail(s) ELSE s
Sign(s) == IF s # << >> /\ Head(s) = "-" THEN -1 ELSE 1
NotANumber == [ok |-> FALSE, val |-> 0]

\* int(s): surrounding blanks, an optional sign, one or more digits
ParseInt(s) ==
    LET t == Strip(s)
        u == Unsigned(t)
    IN  IF u # << >> /\ AllDigits(u)
        THEN [ok |-> TRUE, val |-> Sign(t) * DigitsValue(u, 0)]
        ELSE NotANumber

\* float(s) for plain decimal notation: digits with at most one point
ParseFloat(s) ==
    LET t == Strip(s)
        u == Unsigned(t)
        dots == { k \in 1 .. Len(u) : u[k] = "." }
        k == IF dots = {} THEN Len(u) + 1 ELSE CHOOSE d \in dots : TRUE
        ip == SubSeq(u, 1, k - 1)
        fp == SubSeq(u, k + 1, Len(u))
        frac == [j \in 1 .. FloatDecimals |-> IF j <= Len(fp) THEN fp[j] ELSE "0"]
    IN  IF Cardinality(dots) <= 1 /\ AllDigits(ip) /\ AllDigits(fp) /\ Len(ip) + Len(fp) > 0
        THEN [ok |-> TRUE,
              val |-> Sign(t) * (DigitsValue(ip, 0) * Pow10(FloatDecimals)
                                 + DigitsValue(frac, 0))]
        ELSE NotANumber

\* right-aligned in a field of at least w characters
PadLeft(s, w) ==
    IF Len(s) >= w THEN s
    ELSE [k \in 1 .. w |-> IF k <= w - Len(s) THEN " " ELSE s[k - (w - Len(s))]]

\* f"{n:5d}"
FmtInt(n, w) == PadLeft((IF n < 0 THEN << "-" >> ELSE << >>) \o Chars(Digits(Abs(n))), w)

\* f"{s:>5s}"
FmtStr(s, w) == PadLeft(s, w)

\* a / u rounded to the nearest integer, ties to even
RoundHalfEven(a, u) ==
    LET q == a \div u
        r == a % u
    IN  IF 2 * r > u \/ (2 * r = u /\ q % 2 = 1) THEN q + 1 ELSE q

\* f"{x:8.3f}", f"{x:10.5f}"
FmtFloat(v, w, prec) ==
    LET r == RoundHalfEven(Abs(v), Pow10(FloatDecimals - prec))
    IN  PadLeft((IF v < 0 THEN << "-" >> ELSE << >>)
                \o Chars(Digits(r \div Pow10(prec))) \o << "." >>
                \o Chars(ZeroPad(Digits(r % Pow10(prec)), prec)), w)

GroStructure(title, atoms, box) == [title |-> title, atoms |-> atoms, box |-> box]

\* one atom line of write_gro
AtomLine(a) ==
    FmtInt(a.resid, 5) \o FmtStr(a.resname, 5) \o FmtStr(a.atomname, 5)
    \o FmtInt(a.atomnr, 5) \o FmtFloat(a.x, 8, 3) \o FmtFloat(a.y, 8, 3)
    \o FmtFloat(a.z, 8, 3)

BoxLine(box) ==
    FmtFloat(box[1], 10, 5) \o << " " >> \o FmtFloat(box[2], 10, 5) \o << " " >>
    \o FmtFloat(box[3], 10, 5)

\* the lines write_gro writes
write_gro(struct) ==
    << struct.title, FmtInt(Len(struct.atoms), 5) >>
    \o [k \in 1 .. Len(struct.atoms) |-> AtomLine(struct.atoms[k])]
    \o << BoxLine(struct.box) >>

NoAtom == AtomRecord(0, << >>, << >>, 0, 0, 0, 0)

\* variant: the residue name is read from columns 5-9
FixedColumnsNarrow(ln) ==
    LET resid == ParseInt(Slice(ln, 0, 5))
        atomnr == ParseInt(Slice(ln, 15, 20))
        x == ParseFloat(Slice(ln, 20, 28))
        y == ParseFloat(Slice(ln, 28, 36))
        z == ParseFloat(Slice(ln, 36, 44))
    IN  [ok |-> resid.ok /\ atomnr.ok /\ x.ok /\ y.ok /\ z.ok,
         atom |-> AtomRecord(resid.val, Strip(Slice(ln, 5, 9)), Strip(Slice(ln, 10, 15)),
                             atomnr.val, x.val, y.val, z.val)]

\* the try block of the atom loop: the fixed-column layout
FixedColumns(ln) ==
    LET resid == ParseInt(Slice(ln, 0, 5))
        atomnr == ParseInt(Slice(ln, 15, 20))
        x == ParseFloat(Slice(ln, 20, 28))
        y == ParseFloat(Slice(ln, 28, 36))
        z == ParseFloat(Slice(ln, 36, 44))
    IN  [ok |-> resid.ok /\ atomnr.ok /\ x.ok /\ y.ok /\ z.ok,
         atom |-> AtomRecord(resid.val, Strip(Slice(ln, 5, 10)), Strip(Slice(ln, 10, 15)),
                             atomnr.val, x.val, y.val, z.val)]

\* the except block: whitespace tokens; fewer than 6 tokens, a non-numeric token
\* or fewer than 3 coordinates in parts[4:7] all raise ValueError
Tokenized(ln) ==
    LET parts == Split(ln)
    IN  IF Len(parts) < 7 THEN [ok |-> FALSE, atom |-> NoAtom]
        ELSE LET resid == ParseInt(parts[1])
                 atomnr == ParseInt(parts[4])
                 x == ParseFloat(parts[5])
                 y == ParseFloat(parts[6])
                 z == ParseFloat(parts[7])
             IN  [ok |-> resid.ok /\ atomnr.ok /\ x.ok /\ y.ok /\ z.ok,
                  atom |-> AtomRecord(resid.val, parts[2], parts[3], atomnr.val,
                                      x.val, y.val, z.val)]

ParseAtomLine(ln) == IF FixedColumns(ln).ok THEN FixedColumns(ln) ELSE Tokenized(ln)

Raises(kind) == [ok |-> FALSE, error |-> kind, struct |-> GroStructure(<< >>, << >>, << >>)]
Returns(struct) == [ok |-> TRUE, error |-> "", struct |-> struct]

\* the box line: lines[2 + natoms] inside try, and once more in the message of the
\* ValueError the handler raises
ParseBox(lines, natoms) ==
    IF 2 + natoms >= Len(lines) THEN [ok |-> FALSE, error |-> "IndexError", box |-> << >>]
    ELSE LET box_parts == Split(lines[2 + natoms + 1])
             b == [k \in 1 .. 3 |-> IF k <= Len(box_parts) THEN ParseFloat(box_parts[k])
                                     ELSE NotANumber]
         IN  IF Len(box_parts) < 3 \/ \E k \in 1 .. 3 : ~b[k].ok
             THEN [ok |-> FALSE, error |-> "ValueError", box |-> << >>]
             ELSE [ok |-> TRUE, error |-> "", box |-> << b[1].val, b[2].val, b[3].val >>]

\* read_gro on the lines of the file; a negative natoms never equals a length
read_gro(lines) ==
    IF Len(lines) < 3 THEN Raises("ValueError")
    ELSE LET n == ParseInt(lines[2])
         IN  IF ~n.ok THEN Raises("ValueError")
             ELSE LET natoms == n.val
                      atom_lines == IF natoms < 0 THEN << >> ELSE Slice(lines, 2, 2 + natoms)
                      parsed == [k \in 1 .. Len(atom_lines) |-> ParseAtomLine(atom_lines[k])]
                      box == ParseBox(lines, natoms)
                  IN  IF natoms < 0 \/ Len(atom_lines) # natoms THEN Raises("ValueError")
                      ELSE IF \E k \in 1 .. Len(parsed) : ~parsed[k].ok
                      THEN Raises("ValueError")
                      ELSE IF ~box.ok THEN Raises(box.error)
                      ELSE Returns(GroStructure(lines[1],
                                                [k \in 1 .. Len(parsed) |-> parsed[k].atom],
                                                box.box))

Title == << "d", "o", "c", "k" >>
Lig == << "L", "I", "G" >>
Box3 == << 300000, 300000, 300000 >>

\* atom records: short and empty names, names filling their column, a name with a
\* blank inside, extreme numbers, and two records that overflow a column
GroAtoms ==
    { AtomRecord(1, Lig, << "C" >>, 1, 0, 150000, -25000),
      AtomRecord(99999, Lig \o << "H", "H" >>, << "C", "H", "H", "H", "H" >>, 99999,
                 999999900, -99999900, 12345),
      AtomRecord(-9999, << >>, << "C", " ", "H" >>, 2, 140, 260, -1),
      AtomRecord(1, Lig \o << "H", "H", "H" >>, << "C" >>, 1, 0, 0, 0),
      AtomRecord(1, Lig, << "C" >>, 1, 1000000000, 0, 0) }

GroStructs == { GroStructure(Title, atoms, Box3) : atoms \in SeqsUpTo(GroAtoms, NAtoms) }

\* the files given to read_gro directly: a count line, k lines of a well-formed
\* atom, and a box line that is absent, good, short of a field or not numeric
CountLines == { << "0" >>, << "1" >>, << " ", "2" >>, << "-", "1" >>, << "x" >> }
BoxKinds == {"absent", "good", "short", "non-numeric"}
BoxVariant(kind) ==
    CASE kind = "absent" -> << >>
      [] kind = "good" -> << BoxLine(Box3) >>
      [] kind = "short" -> << FmtFloat(Box3[1], 10, 5) \o << " " >> \o FmtFloat(Box3[2], 10, 5) >>
      [] OTHER -> << FmtFloat(Box3[1], 10, 5) \o << " ", "x", " " >> \o FmtFloat(Box3[3], 10, 5) >>

GroShapes == [declared : CountLines, k : 0 .. NAtoms, box : BoxKinds]
GroFile(shape) ==
    << Title, shape.declared >>
    \o [j \in 1 .. shape.k |-> AtomLine(AtomRecord(1, Lig, << "C" >>, j, 0, 150000, -25000))]
    \o BoxVariant(shape.box)

groRest == << mainVars, es, ptVars, runs, xv, toolVars >>

\* write_gro(struct, path)
WriteGro ==
    /\ gro.phase = "write"
    /\ gro' = [gro EXCEPT !.lines = write_gro(gro.struct), !.phase = "read"]
    /\ UNCHANGED groRest

\* read_gro(path)
ReadGro ==
    /\ gro.phase = "read"
    /\ gro' = [gro EXCEPT !.out = read_gro(gro.lines), !.phase = "done"]
    /\ UNCHANGED groRest

\* either a structure to write and read back, or a file to read
InitGro ==
    /\ MainIdle
    /\ es = Unused
    /\ xv = Unused
    /\ ToolsIdle
    /\ PtIdle
    /\ RunsIdle
    /\ \/ \E s \in GroStructs : gro = [GroIdle EXCEPT !.phase = "write", !.struct = s]
       \/ \E sh \in GroShapes :
            gro = [GroIdle EXCEPT !.phase = "read", !.shape = sh, !.lines = GroFile(sh)]

NextGro == WriteGro \/ ReadGro

SpecGro == InitGro /\ [][NextGro]_vars

(* ------------- the table of gmx energy, read line by line ----------------- *)
MaxXvg == 3

\* lines a table may hold: blank ones, comments, directives, rows of three or more
\* numbers, rows that are short or hold something that is not a number
XvgLines ==
    { << >>,
      << " ", " " >>,
      << "#", " ", "t" >>,
      << "@", " ", "s" >>,
      << " ", "@", "1", " ", "2", " ", "3" >>,
      << "0", " ", "1", " ", "2" >>,
      << " ", "1", " ", "-", "1", ".", "5", " ", " ", "2", ".", "2", "5", " " >>,
      << "2", " ", "3", " ", "4", " ", "9" >>,
      << "1", " ", "2" >>,
      << "1", " ", "x", " ", "2" >>,
      << "1", " ", "2", " ", "x" >> }

XvgFiles == SeqsUpTo(XvgLines, MaxXvg)

StartsWith(s, ch) == s # << >> /\ Head(s) = ch

xvRest == << mainVars, es, ptVars, runs, gro, toolVars >>

\* variant: a later row does not replace the values already held
XvgLineKeepFirst ==
    /\ xv.phase = "loop"
    /\ xv.i <= Len(xv.lines)
    /\ LET ln == Strip(xv.lines[xv.i])
           parts == Split(ln)
           f == [k \in 1 .. 3 |-> IF k <= Len(parts) THEN ParseFloat(parts[k])
                                   ELSE NotANumber]
       IN  xv' = IF ln = << >> \/ StartsWith(ln, "#") \/ StartsWith(ln, "@")
                 THEN [xv EXCEPT !.i = @ + 1]
                 ELSE IF Len(parts) >= 3 /\ (\A k \in 1 .. 3 : f[k].ok) /\ xv.last_vals = None
                 THEN [xv EXCEPT !.i = @ + 1,
                                 !.last_vals = << f[1].val, f[2].val, f[3].val >>]
                 ELSE [xv EXCEPT !.i = @ + 1]
    /\ UNCHANGED xvRest

\* one pass of "for ln in f": skip, or parse the first three fields
XvgLine ==
    /\ xv.phase = "loop"
    /\ xv.i <= Len(xv.lines)
    /\ LET ln == Strip(xv.lines[xv.i])
           parts == Split(ln)
           f == [k \in 1 .. 3 |-> IF k <= Len(parts) THEN ParseFloat(parts[k])
                                   ELSE NotANumber]
       IN  xv' = IF ln = << >> \/ StartsWith(ln, "#") \/ StartsWith(ln, "@")
                 THEN [xv EXCEPT !.i = @ + 1]
                 ELSE IF Len(parts) >= 3 /\ (\A k \in 1 .. 3 : f[k].ok)
                 THEN [xv EXCEPT !.i = @ + 1,
                                 !.last_vals = << f[1].val, f[2].val, f[3].val >>]
                 ELSE [xv EXCEPT !.i = @ + 1]
    /\ UNCHANGED xvRest

\* after the loop: raise if last_vals is None, else return v1 + v2
XvgEnd ==
    /\ xv.phase = "loop"
    /\ xv.i > Len(xv.lines)
    /\ xv' = IF xv.last_vals = None
             THEN [xv EXCEPT !.phase = "raised", !.error = "No data parsed"]
             ELSE [xv EXCEPT !.phase = "returned",
                             !.value = xv.last_vals[2] + xv.last_vals[3]]
    /\ UNCHANGED xvRest

\* the extraction command has succeeded and its table is about to be read
InitXvg ==
    /\ MainIdle
    /\ es = Unused
    /\ PtIdle
    /\ RunsIdle
    /\ gro = Unused
    /\ ToolsIdle
    /\ \E f \in XvgFiles : xv = [XvIdle EXCEPT !.phase = "loop", !.lines = f, !.i = 1]

NextXvg == XvgLine \/ XvgEnd

SpecXvg == InitXvg /\ [][NextXvg]_vars

(* ----------------- parse_ndx_groups, character by character --------------- *)
MaxNdxText == 4

\* the lines an index file is made of
NdxTextLines ==
    { << "[", " ", "L", "i", "g", "a", "n", "d", " ", "]" >>,
      << " ", "[", "P", "r", "o", "t", "e", "i", "n", "]", " " >>,
      << "[", "]" >>,
      << "[", " ", "L", "i", "g", "a", "n", "d", " ", "]", " ", "5" >>,
      << "1", " ", "2" >>,
      << " ", "3", " ", "x", " ", "-", "4" >>,
      << "7" >>,
      << " ", " " >> }

NdxTexts == SeqsUpTo(NdxTextLines, MaxNdxText)

EndsWith(s, ch) == s # << >> /\ s[Len(s)] = ch

\* ln.startswith("[") and ln.endswith("]")
IsHeaderLine(ln) == StartsWith(ln, "[") /\ EndsWith(ln, "]")

\* name = ln[1:-1].strip()
HeaderName(ln) == Strip(SubSeq(ln, 2, Len(ln) - 1))

\* the values int(tok) returns for the tokens of a line, in order; a token that
\* raises ValueError contributes nothing
RECURSIVE IntTokens(_)
IntTokens(toks) ==
    IF toks = << >> THEN << >>
    ELSE (IF ParseInt(Head(toks)).ok THEN << ParseInt(Head(toks)).val >> ELSE << >>)
         \o IntTokens(Tail(toks))

\* variant: a header seen again keeps the list the group already has
OpenGroupKeep(g, name) ==
    [n \in (DOMAIN g) \cup { name } |-> IF n \in DOMAIN g THEN g[n] ELSE << >>]

\* groups[current] = []
OpenGroup(g, name) ==
    [n \in (DOMAIN g) \cup { name } |-> IF n = name THEN << >> ELSE g[n]]

NxIdle == [phase |-> "idle", lines |-> << >>, i |-> 0, groups |-> EmptyGroups,
           current |-> None, error |-> ""]

nxRest == << mainVars, es, ptVars, runs, gro, xv, guard, docs, ft >>

\* variant: a token that is no integer ends the call with ValueError
NdxLineStrict ==
    /\ nx.phase = "loop"
    /\ nx.i <= Len(nx.lines)
    /\ LET ln == Strip(nx.lines[nx.i])
           toks == Split(ln)
       IN  nx' = IF ln = << >> THEN [nx EXCEPT !.i = @ + 1]
                 ELSE IF IsHeaderLine(ln)
                 THEN [nx EXCEPT !.i = @ + 1,
                                 !.current = << HeaderName(ln) >>,
                                 !.groups = OpenGroup(@, HeaderName(ln))]
                 ELSE IF nx.current = None THEN [nx EXCEPT !.i = @ + 1]
                 ELSE IF \E k \in 1 .. Len(toks) : ~ParseInt(toks[k]).ok
                 THEN [nx EXCEPT !.phase = "raised", !.error = "ValueError"]
                 ELSE [nx EXCEPT !.i = @ + 1,
                                 !.groups[nx.current[1]] = @ \o IntTokens(toks)]
    /\ UNCHANGED nxRest

\* one pass of "for ln in f"; current is None or << name >>
NdxLine ==
    /\ nx.phase = "loop"
    /\ nx.i <= Len(nx.lines)
    /\ LET ln == Strip(nx.lines[nx.i])
           toks == Split(ln)
       IN  nx' = IF ln = << >> THEN [nx EXCEPT !.i = @ + 1]
                 ELSE IF IsHeaderLine(ln)
                 THEN [nx EXCEPT !.i = @ + 1,
                                 !.current = << HeaderName(ln) >>,
                                 !.groups = OpenGroup(@, HeaderName(ln))]
                 ELSE IF nx.current = None THEN [nx EXCEPT !.i = @ + 1]
                 ELSE [nx EXCEPT !.i = @ + 1,
                                 !.groups[nx.current[1]] = @ \o IntTokens(toks)]
    /\ UNCHANGED nxRest

\* return groups
NdxReturn ==
    /\ nx.phase = "loop"
    /\ nx.i > Len(nx.lines)
    /\ nx' = [nx EXCEPT !.phase = "returned"]
    /\ UNCHANGED nxRest

InitNdx ==
    /\ MainIdle
    /\ es = Unused
    /\ PtIdle
    /\ RunsIdle
    /\ gro = Unused
    /\ xv = Unused
    /\ guard = Unused
    /\ docs = Unused
    /\ ft = Unused
    /\ \E f \in NdxTexts : nx = [NxIdle EXCEPT !.phase = "loop", !.lines = f, !.i = 1]

NextNdx == NdxLine \/ NdxReturn

SpecNdx == InitNdx /\ [][NextNdx]_vars

(* ---------------------- check_derivation_guard.main ------------------------ *)
\* an environment variable: << >> when unset, << value >> when set
EnvUnset == << >>
EnvGet(v, default) == IF v = EnvUnset THEN default ELSE v[1]
\* what "or" and "not" see: None and the empty string are false
Truthy(v) == v # EnvUnset /\ v[1] # ""

KeyValues == { EnvUnset, << "" >>, << "k" >> }
UseLlmValues == { EnvUnset, << "0" >>, << "1" >> }

GuardEnvs ==
    [use_llm : UseLlmValues, gemini : KeyValues, google : KeyValues, googleai : KeyValues]

\* the repository the guard looks at: which required files exist, whether the
\* README head carries the three notes, what is staged, and whether two documents
\* share a prefix
GuardRepos ==
    [license : BOOLEAN, citation : BOOLEAN, readme : { "README.md", "README", "" },
     head_ok : BOOLEAN, staged : { "clean", "binary", "official", "git fails" },
     dup : BOOLEAN]

Problem(by, msg) == [by |-> by, msg |-> msg]

\* check_required_files(): one message naming the missing files, or nothing
check_required_files(repo) ==
    IF ~repo.license \/ ~repo.citation \/ repo.readme = ""
    THEN << Problem("check_required_files", "missing files") >> ELSE << >>

\* check_readme_headers()
check_readme_headers(repo) ==
    IF repo.readme = "" THEN << Problem("check_readme_headers", "README.md missing") >>
    ELSE IF ~repo.head_ok THEN << Problem("check_readme_headers", "README head") >>
    ELSE << >>

\* check_staged_content(), when git answers
check_staged_content(repo) ==
    IF repo.staged = "binary" THEN << Problem("check_staged_content", "binary blob") >>
    ELSE IF repo.staged = "official"
    THEN << Problem("check_staged_content", "official gromacs") >>
    ELSE << >>

\* check_project_docs_unique_prefix()
check_project_docs_unique_prefix(repo) ==
    IF repo.dup THEN << Problem("check_project_docs_unique_prefix", "duplicate prefix") >>
    ELSE << >>

\* llm_assist_if_enabled(summary)
llm_assist_if_enabled(e) ==
    IF EnvGet(e.use_llm, "0") # "1" THEN << >>
    ELSE IF ~(Truthy(e.gemini) \/ Truthy(e.google) \/ Truthy(e.googleai))
    THEN << Problem("llm_assist_if_enabled", "no API key, skipped") >>
    ELSE << Problem("llm_assist_if_enabled", "placeholder enabled") >>

NoCode == -1

GuardIdle == [pc |-> "idle", env |-> << >>, repo |-> << >>, problems |-> << >>,
              summary |-> "", rc |-> NoCode, raised |-> ""]

guardRest == << mainVars, es, ptVars, runs, gro, xv, nx, docs, ft >>

GuardStep(from, to, found) ==
    /\ guard.pc = from
    /\ guard' = [guard EXCEPT !.pc = to, !.problems = @ \o found]
    /\ UNCHANGED guardRest

GuardRequiredFiles == GuardStep("required", "readme", check_required_files(guard.repo))

GuardReadmeHeaders == GuardStep("readme", "staged", check_readme_headers(guard.repo))

\* staged_files() is called outside the try: CalledProcessError leaves main
GuardStagedContent ==
    IF guard.repo.staged = "git fails"
    THEN /\ guard.pc = "staged"
         /\ guard' = [guard EXCEPT !.pc = "raised", !.raised = "CalledProcessError", !.rc = 1]
         /\ UNCHANGED guardRest
    ELSE GuardStep("staged", "prefix", check_staged_content(guard.repo))

GuardUniquePrefix ==
    GuardStep("prefix", "summary", check_project_docs_unique_prefix(guard.repo))

\* try: names = staged_files(); ... except Exception: summary = ""
GuardSummary ==
    /\ guard.pc = "summary"
    /\ guard' = [guard EXCEPT !.pc = "llm", !.summary = "FILES STAT"]
    /\ UNCHANGED guardRest

GuardLlmAssist == GuardStep("llm", "report", llm_assist_if_enabled(guard.env))

\* if problems: ... return 1; return 0
GuardReport ==
    /\ guard.pc = "report"
    /\ guard' = [guard EXCEPT !.pc = "returned",
                              !.rc = IF guard.problems # << >> THEN 1 ELSE 0]
    /\ UNCHANGED guardRest

InitGuard ==
    /\ MainIdle
    /\ es = Unused
    /\ PtIdle
    /\ RunsIdle
    /\ gro = Unused
    /\ xv = Unused
    /\ nx = Unused
    /\ docs = Unused
    /\ ft = Unused
    /\ \E e \in GuardEnvs, r \in GuardRepos :
         guard = [GuardIdle EXCEPT !.pc = "required", !.env = e, !.repo = r]

NextGuard ==
    \/ GuardRequiredFiles
    \/ GuardReadmeHeaders
    \/ GuardStagedContent
    \/ GuardUniquePrefix
    \/ GuardSummary
    \/ GuardLlmAssist
    \/ GuardReport

SpecGuard == InitGuard /\ [][NextGuard]_vars

(* ------------- align_my_documents.main over my_docs/project_docs ----------- *)
MaxDocs == 3

\* the first of EXEMPT_PREFIXES and their number
FirstExempt == 1759156359
ExemptCount == 10
EXEMPT_PREFIXES == FirstExempt .. (FirstExempt + ExemptCount - 1)

\* ten-digit prefixes of file names and first-add timestamps: two ordinary
\* seconds next to each other and the first exempt one
Stamps == (FirstExempt - 2) .. FirstExempt
Titles == << "a.md", "b.md" >>
TitleRank(rest) == CHOOSE k \in 1 .. Len(Titles) : Titles[k] = rest

\* a file name f"{prefix}_{rest}"
DocName(prefix, rest) == [prefix |-> prefix, rest |-> rest]
DocNames == { DocName(t, Titles[k]) : t \in Stamps, k \in 1 .. Len(Titles) }

\* first_add_timestamp(p): None, or the first-add second of the path
NoStamp == 0
GitStamps == Stamps \cup { NoStamp }

\* used.get(ts, set())
UsersOf(used, ts) == IF ts \in DOMAIN used THEN used[ts] ELSE {}

\* used.setdefault(ts, set()).add(p)
Reserve(used, ts, p) ==
    [k \in (DOMAIN used) \cup { ts } |-> IF k = ts THEN UsersOf(used, ts) \cup { p } ELSE used[k]]

\* s.discard(p); if not s: used.pop(prev_pref, None)
Release(used, ts, p) ==
    IF ts \notin DOMAIN used \/ p \notin used[ts] THEN used
    ELSE IF used[ts] = { p } THEN [k \in (DOMAIN used) \ { ts } |-> used[k]]
    ELSE [used EXCEPT ![ts] = @ \ { p }]

\* _scan_project_docs_prefixes(): prefix -> the paths that carry it
ScanPrefixes(dir) ==
    [t \in { n.prefix : n \in dir } |-> { n \in dir : n.prefix = t }]

\* main, lines 790-801: of the paths that share a prefix only the one with the
\* smallest title stays reserved
PreReserve(used) ==
    [t \in DOMAIN used |->
        IF Cardinality(used[t]) > 1
        THEN { CHOOSE n \in used[t] : \A m \in used[t] : TitleRank(n.rest) <= TitleRank(m.rest) }
        ELSE used[t]]

\* the while loop of _ensure_unique_projdocs_ts
RECURSIVE StepBack(_, _, _)
StepBack(ts, p, used) ==
    IF UsersOf(used, ts) = {} \/ UsersOf(used, ts) = { p } THEN ts
    ELSE StepBack(ts - 1, p, used)

\* _ensure_unique_projdocs_ts(ts, cur_path, used): the second chosen and the
\* mapping it leaves behind
EnsureUnique(ts, p, used) ==
    LET cur_ts == StepBack(ts, p, used)
        reserved == Reserve(used, cur_ts, p)
    IN  [ts |-> cur_ts,
         used |-> IF p.prefix # cur_ts THEN Release(reserved, p.prefix, p) ELSE reserved]

DocsIdle == [pc |-> "idle", dir |-> {}, git |-> << >>, targets |-> {}, used |-> << >>,
             renamed |-> {}]

docsRest == << mainVars, es, ptVars, runs, gro, xv, nx, guard, ft >>

\* targets = iter_target_files(); used_proj_prefixes = _scan_...(); pre-reserve
DocsScan ==
    /\ docs.pc = "start"
    /\ docs' = [docs EXCEPT !.pc = "loop", !.targets = docs.dir,
                            !.used = PreReserve(ScanPrefixes(docs.dir))]
    /\ UNCHANGED docsRest

\* one pass of "for p in targets", in the order the directory listing gives
DocsFile(p) ==
    /\ docs.pc = "loop"
    /\ p \in docs.targets
    /\ IF p.prefix \in EXEMPT_PREFIXES
       THEN docs' = [docs EXCEPT !.targets = @ \ { p },
                                 !.used = Reserve(@, p.prefix, p)]
       ELSE IF docs.git[p] = NoStamp
       THEN docs' = [docs EXCEPT !.targets = @ \ { p }]
       ELSE LET u == EnsureUnique(docs.git[p], p, docs.used)
                new_name == DocName(u.ts, p.rest)
            IN  docs' = [docs EXCEPT
                           !.targets = @ \ { p },
                           !.used = u.used,
                           !.dir = IF new_name # p THEN (@ \ { p }) \cup { new_name } ELSE @,
                           !.renamed = IF new_name # p THEN @ \cup { new_name } ELSE @]
    /\ UNCHANGED docsRest

DocsDone ==
    /\ docs.pc = "loop"
    /\ docs.targets = {}
    /\ docs' = [docs EXCEPT !.pc = "done"]
    /\ UNCHANGED docsRest

DocDirs == { d \in SUBSET DocNames : Cardinality(d) <= MaxDocs }

InitDocs ==
    /\ MainIdle
    /\ es = Unused
    /\ PtIdle
    /\ RunsIdle
    /\ gro = Unused
    /\ xv = Unused
    /\ nx = Unused
    /\ guard = Unused
    /\ ft = Unused
    /\ \E d \in DocDirs : \E g \in [d -> GitStamps] :
         docs = [DocsIdle EXCEPT !.pc = "start", !.dir = d, !.git = g]

NextDocs ==
    \/ DocsScan
    \/ \E p \in DocNames : DocsFile(p)
    \/ DocsDone

SpecDocs == InitDocs /\ [][NextDocs]_vars

(* ----------------------------- ensure_footer ------------------------------- *)
MaxDocLines == 3

\* a document is a sequence of symbols: single characters, "M" for the text of
\* MARKER, "C" for the copyright sentence with its year label and "L" for the
\* licence sentence
NL == "\n"
MARKER == "M"

\* canonical = "\n\n---\n\n**MARKER**\n\nCopyright ...\n\n...\n"
Canonical ==
    << NL, NL, "-", "-", "-", NL, NL, "*", "*", MARKER, "*", "*", NL, NL, "C", NL, NL, "L", NL >>

\* the lines documents are written with
DocLines ==
    { << "a" >>, << >>, << " " >>, << "-", "-", "-" >>, << "*", "*" >>,
      << "*", "*", MARKER, "*", "*" >>, << "a", " ", MARKER >> }

\* "\n".join(lines)
RECURSIVE Join(_)
Join(lines) ==
    IF lines = << >> THEN << >>
    ELSE IF Len(lines) = 1 THEN lines[1]
    ELSE lines[1] \o << NL >> \o Join(Tail(lines))

\* the documents: lines joined by newlines, with or without a final newline
DocTexts ==
    { Join(ls) : ls \in SeqsUpTo(DocLines, MaxDocLines) }
    \cup { Join(ls) \o << NL >> : ls \in SeqsUpTo(DocLines, MaxDocLines) }

\* text.rfind(sub, 0, stop): the last 0-based index below stop, or -1
RFind(text, sub, stop) ==
    LET hits == { k \in 1 .. stop : k <= Len(text) /\ text[k] = sub }
    IN  IF hits = {} THEN -1 ELSE (CHOOSE k \in hits : \A j \in hits : j <= k) - 1

\* text.rstrip("\r\n")
RECURSIVE RStripNewlines(_)
RStripNewlines(text) ==
    IF text # << >> /\ text[Len(text)] = NL
    THEN RStripNewlines(SubSeq(text, 1, Len(text) - 1)) ELSE text

\* text.splitlines(): a final newline opens no further line
RECURSIVE SplitLinesFrom(_, _, _)
SplitLinesFrom(text, cur, acc) ==
    IF text = << >> THEN (IF cur = << >> THEN acc ELSE Append(acc, cur))
    ELSE IF Head(text) = NL THEN SplitLinesFrom(Tail(text), << >>, Append(acc, cur))
    ELSE SplitLinesFrom(Tail(text), Append(cur, Head(text)), acc)

SplitLines(text) == SplitLinesFrom(text, << >>, << >>)

LastIs(lines, what) == lines # << >> /\ Strip(lines[Len(lines)]) = what
DropLast(lines) == SubSeq(lines, 1, Len(lines) - 1)

\* while pre_lines and pre_lines[-1].strip() == "": pre_lines.pop()
RECURSIVE PopBlank(_)
PopBlank(lines) == IF LastIs(lines, << >>) THEN PopBlank(DropLast(lines)) ELSE lines

\* if pre_lines and pre_lines[-1].strip() == what: pre_lines.pop()
PopOne(lines, what) == IF LastIs(lines, what) THEN DropLast(lines) ELSE lines

\* one pass of the body of "while changed and pre_lines"
CleanPass(lines) ==
    PopBlank(PopOne(PopBlank(PopOne(PopBlank(lines), << "*", "*" >>)), << "-", "-", "-" >>))

\* the cleaning loop: passes are repeated until one removes nothing
RECURSIVE CleanTail(_)
CleanTail(lines) ==
    IF lines = << >> THEN lines
    ELSE IF CleanPass(lines) = lines THEN lines
    ELSE CleanTail(CleanPass(lines))

\* the text the canonical footer is put after: lines 148-170 with a marker,
\* line 177 without one
FooterHead(text) ==
    LET idx == RFind(text, MARKER, Len(text))
        nl == RFind(text, NL, idx)
        line_start == IF nl = -1 THEN 0 ELSE nl + 1
    IN  IF idx # -1
        THEN RStripNewlines(Join(CleanTail(SplitLines(SubSeq(text, 1, line_start)))))
        ELSE RStripNewlines(text)

\* ensure_footer(path) on a file holding text: the text it leaves and its result
ensure_footer(text) ==
    LET new_text == FooterHead(text) \o Canonical
    IN  [text |-> new_text, modified |-> new_text # text]

FtIdle == [calls |-> 0, given |-> << >>, text |-> << >>, before |-> << >>,
           modified |-> << >>]

ftRest == << mainVars, es, ptVars, runs, gro, xv, nx, guard, docs >>

\* one call of ensure_footer on the file; at most two in a row
EnsureFooter ==
    /\ ft # Unused
    /\ ft.calls < 2
    /\ ft' = [ft EXCEPT !.calls = @ + 1,
                        !.before = ft.text,
                        !.text = ensure_footer(ft.text).text,
                        !.modified = Append(@, ensure_footer(ft.text).modified)]
    /\ UNCHANGED ftRest

InitFooter ==
    /\ MainIdle
    /\ es = Unused
    /\ PtIdle
    /\ RunsIdle
    /\ gro = Unused
    /\ xv = Unused
    /\ nx = Unused
    /\ guard = Unused
    /\ docs = Unused
    /\ \E t \in DocTexts : ft = [FtIdle EXCEPT !.given = t, !.text = t]

NextFooter == EnsureFooter

SpecFooter == InitFooter /\ [][NextFooter]_vars

(* ======================== properties ===================================== *)
Max(a, b) == IF a >= b THEN a ELSE b
TablePoses == { table[k].pose : k \in 1 .. Len(table) }
Succeeded == { i \in PoseIds : status[i] = "ok" }
TermsMsg == "Energy terms not found"
InputsMissing == ~env.tpr \/ ~env.structure \/ ~env.ndx \/ ~env.gmx
NothingAttempted ==
    /\ written = {}
    /\ engineCalls = 0
    /\ \A i \in PoseIds : status[i] = "new" /\ submitted[i] = 0 /\ at[i] = 0

\* C1: in sequential and in pooled mode every pose id of [0, n_poses) is
\* submitted for evaluation exactly once (never twice, and all of them once the
\* loop is over), every one of them has run to its own result or failure, and
\* no failure ends the run once poses are being evaluated.
C1_EveryPoseEvaluatedOnce ==
    /\ \A i \in PoseIds : submitted[i] <= 1
    /\ (\E i \in PoseIds : submitted[i] > 0) => pc # "exit"
    /\ pc \in { "sort", "done" } =>
         \A i \in PoseIds : submitted[i] = 1 /\ Finished(i)

C1_Witness ==
    /\ pc = "done"
    /\ \E i, j \in PoseIds : i < j /\ status[i] = "failed" /\ status[j] = "ok"

\* C2: when the run has completed, the ranked table holds exactly the pose ids
\* whose evaluation succeeded, each once and with the score it returned, and no
\* row of a failed pose, whatever the completion order of the workers.
C2_TableIsTheSuccessfulPoses ==
    pc = "done" =>
        /\ TablePoses = Succeeded
        /\ Len(table) = Cardinality(Succeeded)
        /\ \A k \in 1 .. Len(table) : table[k].score = score[table[k].pose]

C2_Witness ==
    /\ pc = "done" /\ args.jobs > 1
    /\ Cardinality(Succeeded) >= 2
    /\ \E i \in PoseIds : status[i] = "failed"

C4_TiesByPoseId ==
    pc = "done" =>
        \A k, l \in 1 .. Len(table) :
            (k < l /\ table[k].score = table[l].score) => table[k].pose < table[l].pose

\* C5: if the topology, the structure or the index file does not exist, or gmx
\* does not resolve, the run ends with status 1 before any pose is attempted:
\* no candidate is written and the engine is never invoked.
C5_MissingInputFailsFast ==
    (pc # "start" /\ InputsMissing) =>
        /\ pc = "exit" /\ exitStatus = 1
        /\ exitMsg \in { "Input not found", "Cannot find gmx executable" }
        /\ NothingAttempted
        /\ tableWrites = 0

C5_Witness ==
    /\ pc = "exit" /\ ~env.gmx /\ env.tpr /\ env.structure /\ env.ndx
    /\ args.n_poses > 0

\* C6: once the group index is parsed, a missing "Ligand" group or one without
\* indices ends the run with status 1 before any engine invocation and any pose
\* evaluation, and is not logged as a per-pose failure.
C6_LigandRequired ==
    (pc \notin { "start", "load" } /\ ~InputsMissing /\ env.groOk
       /\ ("Ligand" \notin DOMAIN groups \/ groups["Ligand"] = <<>>)) =>
        /\ pc = "exit" /\ exitStatus = 1
        /\ exitMsg \in { "no group named 'Ligand'", "'Ligand' group is empty" }
        /\ NothingAttempted
        /\ log = <<>>
        /\ tableWrites = 0

C6_Witness ==
    /\ pc = "exit" /\ args.n_poses > 0
    /\ "Ligand" \in DOMAIN groups /\ groups["Ligand"] = <<>>

\* C7: a required energy term missing from the term listing is fatal to the run:
\* it is not logged as a per-pose warning, no table is written and the run does
\* not end with status 0.
C7_MissingTermIsFatal ==
    (\E i \in PoseIds : err[i] = TermsMsg) =>
        /\ \A k \in 1 .. Len(log) : log[k].msg # TermsMsg
        /\ tableWrites = 0
        /\ exitStatus # 0

\* C8: for every listed mapping and every pair of required names, if a required
\* name is absent from the mapping the operation raises the error naming exactly
\* the absent required names, never runs the extraction and returns no score.
C8_MissingTermsNamedExactly ==
    (es.pc \in { "extract", "raised", "returned" }
       /\ es.error.msg # "gmx energy listing failed"
       /\ \E k \in 1 .. 2 : es.term_names[k] \notin DOMAIN es.mapping) =>
        /\ es.pc = "raised"
        /\ es.error.msg = TermsMsg
        /\ { es.error.terms[k] : k \in 1 .. Len(es.error.terms) } =
             { es.term_names[k] : k \in 1 .. 2 } \ DOMAIN es.mapping
        /\ es.extractCalls = 0
        /\ es.value = 0

C8_Witness ==
    /\ es.pc = "raised" /\ es.error.msg = TermsMsg
    /\ es.term_names[1] \in DOMAIN es.mapping
    /\ es.term_names[2] \notin DOMAIN es.mapping

\* C9: with jobs <= 1 the poses are evaluated one at a time in ascending id
\* order: a pose has started only if every smaller id has returned or failed.
C9_SequentialAscending ==
    args.jobs <= 1 =>
        /\ Cardinality(Running) <= 1
        /\ \A i, j \in PoseIds : (i < j /\ status[j] # "new") => Finished(i)

C9_Witness ==
    /\ args.jobs <= 1 /\ args.n_poses >= 2
    /\ status[0] = "failed" /\ status[1] = "running"

\* C10: at every moment at most max(1, jobs) pose evaluations are in progress.
C10_PoolBound ==
    Cardinality(Running) <= Max(1, args.jobs)

C10_Witness ==
    /\ args.jobs = 2
    /\ Cardinality(Running) = 2
    /\ Queued # {}

\* C11: the candidate path, the rerun basename and the extraction table path of
\* two distinct pose ids all differ, every write goes to a path derived from the
\* writing pose's own id, and no file is written by two evaluations.
PoseFiles == [i \in 0 .. MaxPoses |-> { CandPath(i), Deffnm(i), EdrPath(i), XvgPath(i) }]
PathsOf(i) == PoseFiles[i]

C11_PoseScopedPaths ==
    /\ \A i, j \in PoseIds : i # j => PathsOf(i) \cap PathsOf(j) = {}
    /\ \A i \in PoseIds : files[i] \subseteq PathsOf(i)
    /\ \A i, j \in PoseIds : i # j => files[i] \cap files[j] = {}

C11_Witness ==
    /\ args.jobs > 1
    /\ \E i, j \in Running :
         /\ i # j
         /\ \E v \in files[i], w \in files[j] : v[3] = w[3]

\* what a returned call of apply_rigid_transform took and gave back
Returned == { c \in Callers : th[c].pc = "done" }
In(c) == th[c].given.atoms
Out(c) == heap[th[c].result.atoms]
Moved(c) == { k \in 1 .. Len(In(c)) : Out(c)[k] # In(c)[k] }
Shifted(q, d) == QAdd(q, QInt(d))

\* C12: apply_rigid_transform never changes the structure it was given (title,
\* box, the atom list and every record in it), whether one call runs at a time
\* or two workers are inside the call at once.
C12_InputNotMutated ==
    \A c \in Callers :
        th[c].pc # "idle" =>
            /\ th[c].struct.title = th[c].given.title
            /\ th[c].struct.box = th[c].given.box
            /\ heap[th[c].struct.atoms] = th[c].given.atoms

C12_Witness ==
    /\ Returned = Callers
    /\ \A c \in Callers : Moved(c) # {}
    /\ Out(1) # Out(2)

\* C13: the returned structure has the title, box, atom count and order of the
\* input, every record keeps resid, resname, atomname and atomnr, and every atom
\* whose 1-based index is not in the subset keeps its coordinates.
C13_OnlySubsetMoves ==
    \A c \in Returned :
        /\ th[c].result.title = th[c].given.title
        /\ th[c].result.box = th[c].given.box
        /\ Len(Out(c)) = Len(In(c))
        /\ \A k \in 1 .. Len(In(c)) :
             /\ Out(c)[k].resid = In(c)[k].resid
             /\ Out(c)[k].resname = In(c)[k].resname
             /\ Out(c)[k].atomname = In(c)[k].atomname
             /\ Out(c)[k].atomnr = In(c)[k].atomnr
             /\ (\A j \in 1 .. Len(th[c].lig) : th[c].lig[j] # k) => Out(c)[k] = In(c)[k]

\* C14: every Ligand index that selects an atom for the transform lies within
\* [1, atom_count]; an index of 0, a negative one or one above the atom count
\* never selects and transforms an atom.
C14_AppliedIndexInRange ==
    \A c \in Callers :
        th[c].pc \in {"loop", "done"} =>
            \A j \in 1 .. Len(th[c].lig) :
                j < th[c].k => th[c].lig[j] \in 1 .. Len(heap[th[c].atoms])

\* C18: with max_rotation_degrees <= 0 the matrix is the identity, no draw is made
\* for angle or axis (the three translation draws are the only ones), and every
\* subset atom ends at its old position plus the one translation (tx, ty, tz).
C18_PureTranslation ==
    \A c \in Returned :
        th[c].rot <= 0 =>
            /\ th[c].R = Identity
            /\ th[c].ndraws = 3
            /\ \A j \in 1 .. Len(th[c].lig_idx0) :
                 LET k == PyPos(In(c), th[c].lig_idx0[j])
                 IN  /\ Out(c)[k].x = Shifted(In(c)[k].x, th[c].t[1])
                     /\ Out(c)[k].y = Shifted(In(c)[k].y, th[c].t[2])
                     /\ Out(c)[k].z = Shifted(In(c)[k].z, th[c].t[3])

\* C19: for every non-empty index sequence the call accepts, the centroid of the
\* listed atoms after the call is their centroid before it plus the translation,
\* whatever the rotation.
C19_CentroidShift ==
    \A c \in Returned :
        LET before == Centroid(In(c), th[c].lig_idx0)
            after == Centroid(Out(c), th[c].lig_idx0)
        IN  \A d \in 1 .. 3 : after[d] = Shifted(before[d], th[c].t[d])

\* C15: with --jobs 1 and a seed, two runs on the same inputs write the same
\* candidate for every pose id, whichever engine invocations succeed or fail in
\* either run.
C15_SeededCandidatesRepeat ==
    \A i \in 1 .. Len(runs[1].cand) :
        i <= Len(runs[2].cand) => runs[1].cand[i] = runs[2].cand[i]

C15_Witness ==
    /\ \A p \in Procs : runs[p].phase = "end" /\ Len(runs[p].cand) = MaxPoses
    /\ runs[1].engine[1] # runs[2].engine[1]
    /\ runs[1].cand[1] # runs[1].cand[2]
    /\ runs[1].cand[1] # heap[BaseList(1)]

\* the declared count of a file, when its count line is an integer
Declared(shape) == ParseInt(shape.declared)
GivenFile == gro.phase = "done" /\ gro.shape.declared # << >>
RoundTrip == gro.phase = "done" /\ gro.shape.declared = << >>

\* every field of the record fits its column of the fixed layout, and the names
\* carry no blank at either end
FitsColumns(a) ==
    /\ Len(FmtInt(a.resid, 5)) = 5
    /\ Len(a.resname) <= 5 /\ Strip(a.resname) = a.resname
    /\ Len(a.atomname) <= 5 /\ Strip(a.atomname) = a.atomname
    /\ Len(FmtInt(a.atomnr, 5)) = 5
    /\ \A f \in {"x", "y", "z"} : Len(FmtFloat(a[f], 8, 3)) = 8

ValidStructure(s) == \A k \in 1 .. Len(s.atoms) : FitsColumns(s.atoms[k])

\* C16: read_gro fails with ValueError, and with nothing else, whenever the
\* declared atom count differs from the number of atom lines before the box line
\* or the box line is absent or has fewer than 3 numeric fields; whenever it
\* succeeds the number of records is the declared count.
C16_FormatErrorOnly ==
    GivenFile =>
        /\ ((Declared(gro.shape).ok /\ Declared(gro.shape).val # gro.shape.k)
            \/ gro.shape.box # "good")
               => ~gro.out.ok /\ gro.out.error = "ValueError"
        /\ gro.out.ok => Len(gro.out.struct.atoms) = Declared(gro.shape).val

\* C17: for every structure s whose fields fit the columns of the format,
\* read_gro(write_gro(s)) succeeds with as many records as s, in the same order,
\* each with exactly the residue name and atom name of the record of s.
C17_RoundTripKeepsNames ==
    (RoundTrip /\ ValidStructure(gro.struct)) =>
        /\ gro.out.ok
        /\ Len(gro.out.struct.atoms) = Len(gro.struct.atoms)
        /\ \A k \in 1 .. Len(gro.struct.atoms) :
             /\ gro.out.struct.atoms[k].resname = gro.struct.atoms[k].resname
             /\ gro.out.struct.atoms[k].atomname = gro.struct.atoms[k].atomname

C17_Witness ==
    /\ RoundTrip
    /\ ValidStructure(gro.struct)
    /\ Len(gro.struct.atoms) = NAtoms
    /\ \E k \in 1 .. NAtoms : Len(gro.struct.atoms[k].resname) = 5
    /\ \E k \in 1 .. NAtoms : gro.struct.atoms[k].resname = << >>
    /\ gro.out.ok

\* a row that parses as (time, value1, value2): not blank, not a '#' or '@' line,
\* three or more fields, the first three numeric
RowParses(ln) ==
    LET t == Strip(ln)
        parts == Split(t)
    IN  /\ t # << >>
        /\ ~StartsWith(t, "#")
        /\ ~StartsWith(t, "@")
        /\ Len(parts) >= 3
        /\ \A k \in 1 .. 3 : ParseFloat(parts[k]).ok

ParsedRows(lines) == { k \in 1 .. Len(lines) : RowParses(lines[k]) }
LastOf(S) == CHOOSE k \in S : \A j \in S : j <= k
Field(ln, k) == ParseFloat(Split(Strip(ln))[k]).val

\* C20: the extraction returns value1 + value2 of the last row of the table that
\* parses as (time, value1, value2), skipping blank lines, '#' and '@' lines, rows
\* of fewer than 3 fields and rows with a non-numeric field; when no row parses it
\* raises "No data parsed" and returns no score.
C20_LastParsedRow ==
    /\ xv.phase = "returned" =>
         /\ ParsedRows(xv.lines) # {}
         /\ LET ln == xv.lines[LastOf(ParsedRows(xv.lines))]
            IN  xv.value = Field(ln, 2) + Field(ln, 3)
    /\ xv.phase = "raised" =>
         /\ ParsedRows(xv.lines) = {}
         /\ xv.error = "No data parsed"
         /\ xv.value = 0
    /\ (xv.phase = "loop" /\ xv.i > Len(xv.lines)) =>
         (xv.last_vals = None <=> ParsedRows(xv.lines) = {})

C20_Witness ==
    /\ xv.phase = "returned"
    /\ Cardinality(ParsedRows(xv.lines)) >= 2
    /\ LastOf(ParsedRows(xv.lines)) < Len(xv.lines)
    /\ \E j, k \in ParsedRows(xv.lines) :
         Field(xv.lines[j], 2) + Field(xv.lines[j], 3) # Field(xv.lines[k], 2) + Field(xv.lines[k], 3)

(* parse_ndx_groups *)
NxLine(k) == Strip(nx.lines[k])
HeaderAt(k) == NxLine(k) # << >> /\ IsHeaderLine(NxLine(k))
Headers == { k \in 1 .. Len(nx.lines) : HeaderAt(k) }
\* the lines that belong to the header at h: up to the next header or the end
Section(h) == { k \in (h + 1) .. Len(nx.lines) : \A j \in (h + 1) .. k : ~HeaderAt(j) }

RECURSIVE TokensOf(_, _)
TokensOf(k, last) ==
    IF k > last THEN << >> ELSE IntTokens(Split(NxLine(k))) \o TokensOf(k + 1, last)

\* the integer tokens of the section of the header at h, in file order
SectionInts(h) == TokensOf(h + 1, h + Cardinality(Section(h)))
LastHeader(h) == \A j \in Headers : j > h => HeaderName(NxLine(j)) # HeaderName(NxLine(h))

\* C21: parse_ndx_groups returns on every text, never raises; the groups are the
\* names of the bracketed header lines; a group holds, in file order, exactly
\* the integer tokens between its header and the next header or the end of the
\* input; tokens before the first header and tokens that are no integers are in
\* no group.
C21_NdxTokensToCurrentGroup ==
    /\ nx.phase # "raised"
    /\ nx.phase = "returned" =>
         /\ DOMAIN nx.groups = { HeaderName(NxLine(h)) : h \in Headers }
         /\ \A h \in Headers :
              LastHeader(h) => nx.groups[HeaderName(NxLine(h))] = SectionInts(h)
         /\ Headers = {} => nx.groups = EmptyGroups

C21_Witness ==
    /\ nx.phase = "returned"
    /\ \E h \in Headers :
         /\ h > 1 /\ IntTokens(Split(NxLine(1))) # << >>
         /\ \E k \in Section(h) :
              /\ Len(IntTokens(Split(NxLine(k)))) = 2
              /\ Len(Split(NxLine(k))) = 3
         /\ Len(nx.groups[HeaderName(NxLine(h))]) = 2

SameName(h1, h2) == HeaderName(NxLine(h1)) = HeaderName(NxLine(h2))

\* C30: when two header lines carry the same name, the later one resets the
\* group: right after it the group is empty, and the returned group holds only
\* the integer tokens that follow the last header of that name, none of those
\* listed after the earlier one.
C30_RepeatedHeaderResets ==
    /\ nx.phase = "loop" =>
         \A h \in Headers : nx.i = h + 1 => nx.groups[HeaderName(NxLine(h))] = << >>
    /\ nx.phase = "returned" =>
         \A h1, h2 \in Headers :
            (h1 < h2 /\ SameName(h1, h2) /\ LastHeader(h2)) =>
                /\ nx.groups[HeaderName(NxLine(h2))] = SectionInts(h2)
                /\ SectionInts(h1) # << >> =>
                     nx.groups[HeaderName(NxLine(h2))] # SectionInts(h1) \o SectionInts(h2)

C30_Witness ==
    /\ nx.phase = "returned"
    /\ \E h1, h2 \in Headers :
         /\ h1 < h2 /\ SameName(h1, h2) /\ LastHeader(h2)
         /\ SectionInts(h1) # << >>
         /\ SectionInts(h2) # << >>
         /\ nx.groups[HeaderName(NxLine(h2))] = SectionInts(h2)

(* per-pose warnings *)
\* the error messages whose text carries a pose-scoped file name: the command
\* line of mdrun, edr.name, out_xvg
MsgNamesPose == { "mdrun -rerun failed", "Energy terms not found", "No data parsed" }
Failed == { i \in PoseIds : status[i] = "failed" }

\* C22: every warning identifies the pose that failed, by its id or at least by
\* a file name of that pose inside the message, and carries the message of that
\* pose's error; when the loop is over there is one warning per failed pose.
C22_FailureLoggedWithPoseId ==
    /\ \A k \in 1 .. Len(log) :
         /\ log[k].pose # NoPose \/ log[k].msg \in MsgNamesPose
         /\ log[k].pose # NoPose =>
              status[log[k].pose] = "failed" /\ log[k].msg = err[log[k].pose]
    /\ pc \in { "sort", "done" } =>
         /\ Len(log) = Cardinality(Failed)
         /\ \A i \in Failed : \E k \in 1 .. Len(log) : log[k].msg = err[i]

(* derivation guard *)
GuardChecks == { "check_required_files", "check_readme_headers", "check_staged_content",
                 "check_project_docs_unique_prefix" }
ChecksClean == \A k \in 1 .. Len(guard.problems) : guard.problems[k].by \notin GuardChecks
NoApiKey ==
    ~(Truthy(guard.env.gemini) \/ Truthy(guard.env.google) \/ Truthy(guard.env.googleai))

\* C23: with DERIVATION_GUARD_USE_LLM=1 and no API key set, main returns 0
\* whenever the required-files, README-header, staged-content and
\* unique-prefix checks have all reported no problem.
C23_MissingKeyDoesNotFail ==
    (guard.pc = "returned" /\ guard.env.use_llm = << "1" >> /\ NoApiKey /\ ChecksClean) =>
        guard.rc = 0

(* document prefixes *)
\* C24: after a run of main no two files directly under my_docs/project_docs
\* carry the same ten-digit prefix, whatever files were there and whatever their
\* first-add timestamps.
C24_UniquePrefixAfterRun ==
    docs.pc = "done" =>
        \A n, m \in docs.dir : n # m => n.prefix # m.prefix

(* licence footer *)
\* C25: a second call of ensure_footer right after a first one leaves the file
\* as the first call left it and returns False.
C25_FooterIdempotent ==
    ft.calls = 2 => (ft.text = ft.before /\ ft.modified[2] = FALSE)

(* seeded runs with a pool *)
\* the generator state right after random.seed(seed)
Seeded == 1
\* the state after the axis loop that starts at x: three draws per pass, again
\* while the vector drawn is zero
RECURSIVE AfterAxis(_)
AfterAxis(x) ==
    IF Draw3(x, 1) = << 0, 0, 0 >> THEN AfterAxis(Advance3(x)) ELSE Advance3(x)

\* the state one call leaves when it runs alone from x
AfterCall(x, rot) == IF rot <= 0 THEN Advance3(x) ELSE AfterAxis(NextRng(Advance3(x)))

\* where the draws of the c-th pose start when the poses are evaluated in id order
StartOf(c) == IF c = 1 THEN Seeded ELSE AfterCall(Seeded, th[1].rot)

\* C26: with a seed given and a pool of workers, the translation drawn for a
\* pose is the one it gets when the poses run in id order from the seed,
\* however the draws of the workers interleave.
C26_ScheduleIndependentCandidates ==
    \A c \in Callers :
        (th[c].pc # "idle" /\ Len(th[c].t) = 3) => th[c].t = Draw3(StartOf(c), th[c].trans)

(* termination *)
Validated == pc \in { "seq", "submit" }

\* C29: once validation has passed, the run reaches Completed: the table is
\* written once and the process ends with status 0, for every n_poses >= 0 and
\* every jobs value; when every pose has failed the table has no data row and
\* the run still ends normally.
C29_RunCompletes ==
    /\ Validated ~> (pc = "done" /\ tableWrites = 1 /\ exitStatus = 0)
    /\ [](pc = "done" /\ Succeeded = {} => table = << >> /\ exitStatus = 0)

\* a pooled run of two poses has completed with an empty table: every pose
\* failed, one of them after its axis loop rejected a zero vector
C29_Witness ==
    /\ pc = "done" /\ tableWrites = 1 /\ exitStatus = 0 /\ table = << >>
    /\ args.n_poses = MaxLivePoses /\ args.jobs > 1
    /\ Succeeded = {} /\ Failed = PoseIds
    /\ \E i \in PoseIds : th[i].pc = "done" /\ th[i].ndraws > 3 + 1 + 3

(* C27 *)
\* the step of run_pose at which an error message is raised: 0 generate and
\* write, 1 rerun, 2 term listing, 3 extraction
StepOf(msg) ==
    CASE msg = "IndexError" -> 0
      [] msg = "mdrun -rerun failed" -> 1
      [] msg \in { "gmx energy listing failed", TermsMsg } -> 2
      [] OTHER -> 3

\* the files of each step of pose i: the candidate, the rerun output, the
\* extracted energies
StepFiles ==
    [i \in 0 .. MaxPoses |->
       [cand |-> CandPath(i), out |-> Deffnm(i), xvg |-> XvgPath(i)]]

\* what the steps completed so far have left behind
Trail(i) ==
    /\ at[i] \in 0 .. 4
    /\ (at[i] >= 1) = (i \in written)
    /\ (i \in written) = (StepFiles[i].cand \in files[i])
    /\ StepFiles[i].out \in files[i] =>
         at[i] >= 2 \/ (at[i] = 1 /\ err[i] = "mdrun -rerun failed")
    /\ StepFiles[i].xvg \in files[i] =>
         at[i] = 4 \/ (at[i] = 3 /\ status[i] = "failed")
    /\ (status[i] = "ok") = (at[i] = 4)

\* a pose with an error has stopped at the step that raised it and has no tuple
Stopped(i) ==
    /\ (err[i] # "") = (status[i] = "failed")
    /\ status[i] = "failed" =>
         /\ at[i] = StepOf(err[i])
         /\ score[i] = 0
         /\ \A k \in 1 .. Len(results) : results[k].pose # i
         /\ \A k \in 1 .. Len(table) : table[k].pose # i

\* C27: within one pose evaluation the steps run in the order generate, write
\* candidate, rerun, list terms, extract; a failure at a step ends the evaluation
\* with an error, no later step is executed for that pose, and no
\* (pose_id, score, path) tuple is returned for it.
C27_StepsInOrderFailureEnds == \A i \in PoseIds : Trail(i) /\ Stopped(i)

\* one pose failed at the rerun with its candidate written and no energy file,
\* another went through every step and is in the table
C27_Witness ==
    /\ pc = "done"
    /\ \E i, j \in PoseIds :
         /\ status[i] = "failed" /\ err[i] = "mdrun -rerun failed"
         /\ CandPath(i) \in files[i] /\ XvgPath(i) \notin files[i]
         /\ status[j] = "ok" /\ j \in TablePoses

(* C28 *)
\* the table is on disk: every evaluation has finished and has been collected
AfterTable ==
    /\ pc = "done"
    /\ \A i \in PoseIds : Finished(i)
    /\ Running = {} /\ Queued = {}
    /\ table = results /\ table = SortByScore(table)
    /\ Len(results) = Cardinality(Succeeded)

\* C28: the ranked table is sorted and written exactly once, and only after every
\* one of the n_poses evaluations has finished; after the write no evaluation is
\* running and no result is added.
C28_TableWrittenOnceAtEnd ==
    /\ tableWrites \in { 0, 1 }
    /\ (tableWrites = 1) = (pc = "done")
    /\ tableWrites = 1 => AfterTable
    /\ pc = "sort" => \A i \in PoseIds : Finished(i)

\* a pooled run of three poses, some failed and some succeeded, has written its
\* table
C28_Witness ==
    /\ pc = "done" /\ tableWrites = 1
    /\ args.jobs > 1 /\ args.n_poses >= 3
    /\ Succeeded # {} /\ Failed # {}
    /\ Len(table) = Cardinality(Succeeded)

====
